---- MODULE Spec2Model ----
(***************************************************************************)
(* miniNN: the tensor container, the TensorOps kernels, the layer          *)
(* variants, the Model container and the InferenceEngine, as a state       *)
(* machine over the public operations of src/include/*.h.                  *)
(*                                                                         *)
(* float32 values are carried as fixed-point integers in units of 1/One    *)
(* (1.0f is One). Sums are exact; products and quotients are rounded to    *)
(* the nearest unit; std::exp is tabulated at the integers -7..7 and       *)
(* interpolated linearly in between.                                       *)
(*                                                                         *)
(* A thrown C++ exception is a record: the exception class, the kind the   *)
(* message names, and for the engine's wrapped layer failure the layer     *)
(* position, the layer type tag and the inner cause.                       *)
(***************************************************************************)
EXTENDS Integers, Sequences, FiniteSets, TLC

\* ------------------------------------------------------------------ bounds
MaxBatch == 2
MaxTick == 1

\* operations made on the Tensor variables in one run
MaxOps == 2

\* ------------------------------------------------------- program constants
One == 1000
LINEAR == 0
RELU == 1
SIGMOID == 2
SOFTMAX == 3
LinearPlaceholderBytes == 1000000
SizeofFloat == 4
MAGIC_NUMBER == 1313753421
VERSION_MAJOR == 1
HeaderBytes == 16
MaxLayers == 1000
MaxRank == 8

\* --------------------------------------------------------------- utilities
RECURSIVE Product(_)
Product(shape) ==
    IF shape = <<>> THEN 1 ELSE Head(shape) * Product(Tail(shape))

RECURSIVE SumSeq(_)
SumSeq(s) == IF s = <<>> THEN 0 ELSE Head(s) + SumSeq(Tail(s))

RoundDiv(n, d) == (2 * n + d) \div (2 * d)

FMul(a, b) == RoundDiv(a * b, One)

FDiv(a, b) == RoundDiv(a * One, b)

ExpTab(k) ==
    CASE k = -7 -> 1       [] k = -6 -> 2       [] k = -5 -> 7
      [] k = -4 -> 18      [] k = -3 -> 50      [] k = -2 -> 135
      [] k = -1 -> 368     [] k = 0  -> 1000    [] k = 1  -> 2718
      [] k = 2  -> 7389    [] k = 3  -> 20086   [] k = 4  -> 54598
      [] k = 5  -> 148413  [] k = 6  -> 403429  [] k = 7  -> 1096633

Exp(v) ==
    IF v < -7 * One THEN 0
    ELSE IF v >= 7 * One THEN ExpTab(7)
    ELSE LET k == v \div One
             r == v - k * One
         IN  ExpTab(k) + RoundDiv((ExpTab(k + 1) - ExpTab(k)) * r, One)

\* ------------------------------------------------------------ exceptions
NoError ==
    [type |-> "none", kind |-> "none", layer |-> -1, layer_type |-> -1,
     cause |-> "none"]

Throw(type, kind) ==
    [type |-> type, kind |-> kind, layer |-> -1, layer_type |-> -1,
     cause |-> "none"]

\* ---------------------------------------------------------------- Tensor
\* Tensor::Tensor()
DefaultTensor ==
    [shape_ |-> <<>>, total_size_ |-> 0, dtype_ |-> "FLOAT32", data_ |-> <<>>]

\* Tensor::validateShape: "none" or the kind of the exception thrown
validateShape(shape) ==
    IF shape = <<>> THEN "InvalidShape"
    ELSE IF \E i \in 1..Len(shape) : shape[i] = 0 THEN "InvalidShape"
    ELSE "none"

\* Tensor::Tensor(shape, dtype) on a shape that passes validateShape
TensorOfShape(shape, dtype) ==
    [shape_ |-> shape, total_size_ |-> Product(shape), dtype_ |-> dtype,
     data_ |-> [i \in 1..Product(shape) |-> 0]]

\* Tensor::Tensor(shape, data, dtype) on arguments that pass its checks
TensorOfData(shape, data, dtype) ==
    [shape_ |-> shape, total_size_ |-> Product(shape), dtype_ |-> dtype,
     data_ |-> data]

\* Tensor::Tensor(const Tensor&) and operator=(const Tensor&)
CopyTensor(other) ==
    [shape_ |-> other.shape_, total_size_ |-> other.total_size_,
     dtype_ |-> other.dtype_,
     data_ |-> [i \in 1..other.total_size_ |-> other.data_[i]]]

\* Tensor::reshape on a new shape of equal product
Reshaped(t, new_shape) == [t EXCEPT !.shape_ = new_shape]

rank(t) == Len(t.shape_)

\* Tensor::calculateIndex: the checks
calculateIndexError(shape, indices) ==
    IF Len(indices) # Len(shape) THEN "InvalidArgument"
    ELSE IF \E i \in 1..Len(indices) : indices[i] >= shape[i] THEN "OutOfRange"
    ELSE "none"

\* Tensor::calculateIndex: the row-major offset, last index first
RECURSIVE calculateIndexLoop(_, _, _, _, _)
calculateIndexLoop(shape, indices, i, index, multiplier) ==
    IF i < 1 THEN index
    ELSE calculateIndexLoop(shape, indices, i - 1,
                            index + indices[i] * multiplier,
                            multiplier * shape[i])

calculateIndex(shape, indices) ==
    calculateIndexLoop(shape, indices, Len(indices), 0, 1)

\* Tensor::at on indices that pass the checks (data_ is 1-based here)
at(t, indices) == t.data_[calculateIndex(t.shape_, indices) + 1]

\* ------------------------------------------------------------- TensorOps
\* the inner loop of matmul stopping after its first term
matmulSum_firstTerm(tensor1, tensor2, i, j, k, n) ==
    IF k >= n THEN 0
    ELSE FMul(at(tensor1, <<i, k>>), at(tensor2, <<k, j>>))

RECURSIVE matmulSum(_, _, _, _, _, _)
matmulSum(tensor1, tensor2, i, j, k, n) ==
    IF k >= n THEN 0
    ELSE FMul(at(tensor1, <<i, k>>), at(tensor2, <<k, j>>))
         + matmulSum(tensor1, tensor2, i, j, k + 1, n)

\* TensorOps::matmul: the exception (if any) and the value of result after
matmul(tensor1, tensor2, result) ==
    IF rank(tensor1) # 2 \/ rank(tensor2) # 2
    THEN [err |-> Throw("invalid_argument", "InvalidRank"), result |-> result]
    ELSE IF tensor1.shape_[2] # tensor2.shape_[1]
    THEN [err |-> Throw("invalid_argument", "DimensionMismatch"),
          result |-> result]
    ELSE LET m == tensor1.shape_[1]
             n == tensor1.shape_[2]
             p == tensor2.shape_[2]
         IN  IF validateShape(<<m, p>>) # "none"
             THEN [err |-> Throw("invalid_argument", "InvalidShape"),
                   result |-> result]
             ELSE [err |-> NoError,
                   result |->
                     [shape_ |-> <<m, p>>, total_size_ |-> m * p,
                      dtype_ |-> "FLOAT32",
                      data_ |-> [x \in 1..(m * p) |->
                          matmulSum(tensor1, tensor2,
                                    (x - 1) \div p, (x - 1) % p, 0, n)]]]

\* relu negating the negative elements
relu_negating(tensor) ==
    [tensor EXCEPT !.data_ =
        [i \in 1..tensor.total_size_ |->
            IF tensor.data_[i] < 0 THEN -tensor.data_[i] ELSE tensor.data_[i]]]

\* TensorOps::relu
relu(tensor) ==
    [tensor EXCEPT !.data_ =
        [i \in 1..tensor.total_size_ |->
            IF tensor.data_[i] < 0 THEN 0 ELSE tensor.data_[i]]]

\* TensorOps::sigmoid
sigmoid(tensor) ==
    [tensor EXCEPT !.data_ =
        [i \in 1..tensor.total_size_ |->
            FDiv(One, One + Exp(-tensor.data_[i]))]]

RECURSIVE MaxOf(_, _, _)
MaxOf(data, i, max_val) ==
    IF i > Len(data) THEN max_val
    ELSE MaxOf(data, i + 1, IF data[i] > max_val THEN data[i] ELSE max_val)

\* TensorOps::softmax: the exception (if any) and the tensor after
softmax(tensor) ==
    IF tensor.total_size_ = 0
    THEN [err |-> Throw("invalid_argument", "EmptyInput"), tensor |-> tensor]
    ELSE LET max_val == MaxOf(tensor.data_, 2, tensor.data_[1])
             exps == [i \in 1..tensor.total_size_ |->
                         Exp(tensor.data_[i] - max_val)]
             sum == SumSeq(exps)
             inverse_sum == FDiv(One, sum)
         IN  [err |-> NoError,
              tensor |-> [tensor EXCEPT !.data_ =
                  [i \in 1..tensor.total_size_ |-> FMul(exps[i], inverse_sum)]]]

\* ---------------------------------------------------------------- layers
\* a Layer object: its type tag and, for LinearLayer, weights_ and bias_
LinearLayer(weights, bias) ==
    [type_ |-> LINEAR, weights_ |-> weights, bias_ |-> bias]

ReLULayer == [type_ |-> RELU, weights_ |-> DefaultTensor, bias_ |-> DefaultTensor]

SigmoidLayer ==
    [type_ |-> SIGMOID, weights_ |-> DefaultTensor, bias_ |-> DefaultTensor]

SoftmaxLayer ==
    [type_ |-> SOFTMAX, weights_ |-> DefaultTensor, bias_ |-> DefaultTensor]

\* the rank-2 branch without its bias loop
AddBias_none(output, bias) == output

\* the bias loop of the rank-2 branch: output.at({batch, feature}) += bias_.at({feature})
AddBias(output, bias) ==
    [output EXCEPT !.data_ =
        [x \in 1..output.total_size_ |->
            output.data_[x] + at(bias, <<(x - 1) % output.shape_[2]>>)]]

\* LinearLayer::forward: the exception (if any) and the value of output after
LinearLayer_forward(layer, input, output) ==
    IF rank(input) = 1
    THEN IF input.shape_[1] # layer.weights_.shape_[1]
         THEN [err |-> Throw("invalid_argument", "DimensionMismatch"),
               output |-> output]
         ELSE IF validateShape(<<1, input.shape_[1]>>) # "none"
         THEN [err |-> Throw("invalid_argument", "InvalidShape"),
               output |-> output]
         ELSE LET input_2d ==
                      [TensorOfShape(<<1, input.shape_[1]>>, "FLOAT32")
                          EXCEPT !.data_ =
                              [i \in 1..input.total_size_ |-> input.data_[i]]]
                  mm == matmul(input_2d, layer.weights_, DefaultTensor)
                  output_temp == mm.result
              IN  IF mm.err # NoError
                  THEN [err |-> mm.err, output |-> output]
                  ELSE [err |-> NoError,
                        output |->
                          [TensorOfShape(<<layer.weights_.shape_[2]>>, "FLOAT32")
                              EXCEPT !.data_ =
                                  [i \in 1..layer.weights_.shape_[2] |->
                                      output_temp.data_[i]
                                      + layer.bias_.data_[i]]]]
    ELSE IF rank(input) = 2
    THEN IF input.shape_[2] # layer.weights_.shape_[1]
         THEN [err |-> Throw("invalid_argument", "DimensionMismatch"),
               output |-> output]
         ELSE LET mm == matmul(input, layer.weights_, output)
              IN  IF mm.err # NoError
                  THEN [err |-> mm.err, output |-> mm.result]
                  ELSE [err |-> NoError,
                        output |-> AddBias(mm.result, layer.bias_)]
    ELSE [err |-> Throw("invalid_argument", "InvalidRank"), output |-> output]

\* ReLULayer::forward
ReLULayer_forward(input, output) ==
    [err |-> NoError, output |-> relu(CopyTensor(input))]

\* SigmoidLayer::forward
SigmoidLayer_forward(input, output) ==
    [err |-> NoError, output |-> sigmoid(CopyTensor(input))]

\* SoftmaxLayer::forward: output holds the copy even when softmax throws
SoftmaxLayer_forward(input, output) ==
    LET sm == softmax(CopyTensor(input))
    IN  [err |-> sm.err, output |-> sm.tensor]

\* Layer::forward, dispatched on the dynamic type
forward(layer, input, output) ==
    CASE layer.type_ = LINEAR  -> LinearLayer_forward(layer, input, output)
      [] layer.type_ = RELU    -> ReLULayer_forward(input, output)
      [] layer.type_ = SIGMOID -> SigmoidLayer_forward(input, output)
      [] layer.type_ = SOFTMAX -> SoftmaxLayer_forward(input, output)

\* ----------------------------------------------------------------- Model
\* std::make_unique<Model>(): no layers, both shapes empty
NewModel ==
    [null |-> FALSE, layers_ |-> <<>>, input_shape_ |-> <<>>,
     output_shape_ |-> <<>>]

\* a null std::unique_ptr<Model> (nullptr, or a pointer that was moved from)
NullPtr ==
    [null |-> TRUE, layers_ |-> <<>>, input_shape_ |-> <<>>,
     output_shape_ |-> <<>>]

\* Model::addLayer on a non-null layer
addLayer(m, layer) == [m EXCEPT !.layers_ = Append(@, layer)]

setInputShape(m, shape) == [m EXCEPT !.input_shape_ = shape]

setOutputShape(m, shape) == [m EXCEPT !.output_shape_ = shape]

\* ------------------------------------------------------- InferenceEngine
\* InferenceStats{}
DefaultStats ==
    [total_time |-> 0, layer_times |-> <<>>, memory_usage_bytes |-> 0]

\* no InferenceEngine object (before construction, or construction threw)
NoEngine ==
    [exists |-> FALSE, model_ |-> NullPtr, profiling_enabled_ |-> FALSE,
     last_stats_ |-> DefaultStats, intermediate_tensors_ |-> <<>>,
     buffers_allocated_ |-> FALSE]

\* the constructor checking the declared shapes before the layers
InferenceEngine_error_shapesFirst(m) ==
    IF m.null THEN Throw("invalid_argument", "NullModel")
    ELSE IF m.input_shape_ = <<>> \/ m.output_shape_ = <<>>
    THEN Throw("invalid_argument", "UndeclaredShapes")
    ELSE IF m.layers_ = <<>> THEN Throw("invalid_argument", "EmptyModel")
    ELSE NoError

\* InferenceEngine::InferenceEngine: the exception it throws, if any
InferenceEngine_error(m) ==
    IF m.null THEN Throw("invalid_argument", "NullModel")
    ELSE IF m.layers_ = <<>> THEN Throw("invalid_argument", "EmptyModel")
    ELSE IF m.input_shape_ = <<>> \/ m.output_shape_ = <<>>
    THEN Throw("invalid_argument", "UndeclaredShapes")
    ELSE NoError

\* InferenceEngine::InferenceEngine: the object when the constructor returns
InferenceEngine(m) ==
    IF InferenceEngine_error(m) # NoError THEN NoEngine
    ELSE [exists |-> TRUE, model_ |-> m, profiling_enabled_ |-> FALSE,
          last_stats_ |-> DefaultStats, intermediate_tensors_ |-> <<>>,
          buffers_allocated_ |-> FALSE]

getInputShape(e) == e.model_.input_shape_

getOutputShape(e) == e.model_.output_shape_

getNumLayers(e) == Len(e.model_.layers_)

enableProfiling(e, enable) == [e EXCEPT !.profiling_enabled_ = enable]

\* InferenceEngine::preallocateBuffers
preallocateBuffers(e) ==
    IF e.buffers_allocated_ THEN e
    ELSE [e EXCEPT !.intermediate_tensors_ =
                       [i \in 1..Len(e.model_.layers_) |-> DefaultTensor],
                   !.buffers_allocated_ = TRUE]

\* InferenceEngine::clearBuffers
clearBuffers(e) ==
    [e EXCEPT !.intermediate_tensors_ = <<>>, !.buffers_allocated_ = FALSE]

\* validateInput without the loop over the dimensions
validateInput_rankOnly(e, input) ==
    IF rank(input) # Len(e.model_.input_shape_)
    THEN Throw("invalid_argument", "ShapeMismatch")
    ELSE IF input.dtype_ # "FLOAT32"
    THEN Throw("invalid_argument", "UnsupportedDType")
    ELSE NoError

\* InferenceEngine::validateInput: the exception it throws, if any
validateInput(e, input) ==
    LET expected_shape == e.model_.input_shape_
    IN  IF rank(input) # Len(expected_shape)
        THEN Throw("invalid_argument", "ShapeMismatch")
        ELSE IF \E i \in 1..Len(expected_shape) :
                    input.shape_[i] # expected_shape[i]
        THEN Throw("invalid_argument", "ShapeMismatch")
        ELSE IF input.dtype_ # "FLOAT32"
        THEN Throw("invalid_argument", "UnsupportedDType")
        ELSE NoError

\* the catch block reporting the position counted from one
LayerExecutionError_oneBased(i, layer, inner) ==
    [type |-> "runtime_error", kind |-> "LayerExecutionError",
     layer |-> i + 1, layer_type |-> layer.type_, cause |-> inner.kind]

\* the catch block of executeForwardPass: the inner exception wrapped with
\* the layer's position and type tag
LayerExecutionError(i, layer, inner) ==
    [type |-> "runtime_error", kind |-> "LayerExecutionError", layer |-> i,
     layer_type |-> layer.type_, cause |-> inner.kind]

\* one record of the invocation log: layers[index]->forward(input, output)
Invocation(i, layer, input, f) ==
    [index |-> i, layer_type |-> layer.type_, input |-> input,
     output |-> f.output, threw |-> f.err # NoError]

\* the layer loop handing on the preallocated buffer of the layer, which
\* nothing ever fills, instead of the output of the layer
RECURSIVE forwardLoop_buffered(_, _, _, _, _)
forwardLoop_buffered(e, i, current_input, ticks, log) ==
    IF i >= Len(e.model_.layers_)
    THEN [engine |-> e, err |-> NoError, current_input |-> current_input,
          log |-> log]
    ELSE LET layer == e.model_.layers_[i + 1]
             f == forward(layer, current_input, DefaultTensor)
             next == IF e.buffers_allocated_
                     THEN e.intermediate_tensors_[i + 1]
                     ELSE f.output
             e1 == IF e.profiling_enabled_
                   THEN [e EXCEPT !.last_stats_.layer_times[i + 1] = ticks[i + 1]]
                   ELSE e
         IN  IF f.err # NoError
             THEN [engine |-> e,
                   err |-> [type |-> "runtime_error",
                            kind |-> "LayerExecutionError", layer |-> i,
                            layer_type |-> layer.type_, cause |-> f.err.kind],
                   current_input |-> current_input,
                   log |-> Append(log, Invocation(i, layer, current_input, f))]
             ELSE forwardLoop_buffered(e1, i + 1, next, ticks,
                      Append(log, Invocation(i, layer, current_input, f)))

\* the layer loop without current_input = std::move(layer_output): every
\* layer is fed the first input
RECURSIVE forwardLoop_sameInput(_, _, _, _, _)
forwardLoop_sameInput(e, i, current_input, ticks, log) ==
    IF i >= Len(e.model_.layers_)
    THEN [engine |-> e, err |-> NoError, current_input |-> current_input,
          log |-> log]
    ELSE LET layer == e.model_.layers_[i + 1]
             f == forward(layer, current_input, DefaultTensor)
             e1 == IF e.profiling_enabled_
                   THEN [e EXCEPT !.last_stats_.layer_times[i + 1] = ticks[i + 1]]
                   ELSE e
         IN  IF f.err # NoError
             THEN [engine |-> e,
                   err |-> [type |-> "runtime_error",
                            kind |-> "LayerExecutionError", layer |-> i,
                            layer_type |-> layer.type_, cause |-> f.err.kind],
                   current_input |-> current_input,
                   log |-> Append(log, Invocation(i, layer, current_input, f))]
             ELSE forwardLoop_sameInput(e1, i + 1, current_input, ticks,
                      Append(log, Invocation(i, layer, current_input, f)))

\* the layer loop from position i (0-based) on; ticks[i + 1] is
\* layer_end - layer_start of layer i
RECURSIVE forwardLoop(_, _, _, _, _)
\* the rest of one pass through the loop, f being what
\* layers[i]->forward(current_input, layer_output) threw or left in
\* layer_output: the catch block, or the time of the layer, the move into
\* current_input and the next pass
forwardLoopStep(e, i, current_input, ticks, log, f) ==
    LET layer == e.model_.layers_[i + 1]
        e1 == IF e.profiling_enabled_
              THEN [e EXCEPT !.last_stats_.layer_times[i + 1] = ticks[i + 1]]
              ELSE e
    IN  IF f.err # NoError
        THEN [engine |-> e, err |-> LayerExecutionError(i, layer, f.err),
              current_input |-> current_input,
              log |-> Append(log, Invocation(i, layer, current_input, f))]
        ELSE forwardLoop(e1, i + 1, f.output, ticks,
                 Append(log, Invocation(i, layer, current_input, f)))

forwardLoop(e, i, current_input, ticks, log) ==
    IF i >= Len(e.model_.layers_)
    THEN [engine |-> e, err |-> NoError, current_input |-> current_input,
          log |-> log]
    ELSE forwardLoopStep(e, i, current_input, ticks, log,
             forward(e.model_.layers_[i + 1], current_input, DefaultTensor))

\* executeForwardPass without the check of the output shape
executeForwardPass_noOutputCheck(e, input, ticks) ==
    LET r == forwardLoop(e, 0, CopyTensor(input), ticks, <<>>)
    IN  IF r.err # NoError
        THEN [engine |-> r.engine, err |-> r.err, output |-> DefaultTensor,
              log |-> r.log, phases |-> <<"Failed">>]
        ELSE [engine |-> r.engine, err |-> NoError,
              output |-> r.current_input, log |-> r.log,
              phases |-> <<"LayersExecuted", "OutputValidated">>]

\* executeForwardPass after the layer loop, r being what the loop left:
\* the exception of the loop goes on; otherwise the shape of the output
\* is compared with the declared output shape
executeForwardPassEnd(e, r) ==
    LET output == r.current_input
    IN  IF r.err # NoError
        THEN [engine |-> r.engine, err |-> r.err, output |-> DefaultTensor,
              log |-> r.log, phases |-> <<"Failed">>]
        ELSE IF output.shape_ # e.model_.output_shape_
        THEN [engine |-> r.engine,
              err |-> Throw("runtime_error", "OutputShapeMismatch"),
              output |-> DefaultTensor, log |-> r.log,
              phases |-> <<"LayersExecuted", "Failed">>]
        ELSE [engine |-> r.engine, err |-> NoError, output |-> output,
              log |-> r.log,
              phases |-> <<"LayersExecuted", "OutputValidated">>]

\* InferenceEngine::executeForwardPass
executeForwardPass(e, input, ticks) ==
    executeForwardPassEnd(e, forwardLoop(e, 0, CopyTensor(input), ticks, <<>>))

\* InferenceEngine::updateMemoryUsage
RECURSIVE updateMemoryUsage_layers(_)
updateMemoryUsage_layers(layers) ==
    IF layers = <<>> THEN 0
    ELSE (IF Head(layers).type_ = LINEAR THEN LinearPlaceholderBytes ELSE 0)
         + updateMemoryUsage_layers(Tail(layers))

RECURSIVE updateMemoryUsage_tensors(_)
updateMemoryUsage_tensors(tensors) ==
    IF tensors = <<>> THEN 0
    ELSE Head(tensors).total_size_ * SizeofFloat
         + updateMemoryUsage_tensors(Tail(tensors))

updateMemoryUsage(e) ==
    [e EXCEPT !.last_stats_.memory_usage_bytes =
        updateMemoryUsage_layers(e.model_.layers_)
        + updateMemoryUsage_tensors(e.intermediate_tensors_)]

\* the reset reduced to layer_times.resize(n): what an earlier call
\* recorded stays
resetStats_resizeOnly(e) ==
    IF e.profiling_enabled_
    THEN [e EXCEPT !.last_stats_.layer_times =
             [i \in 1..Len(e.model_.layers_) |->
                 IF i <= Len(@) THEN @[i] ELSE 0]]
    ELSE e

\* the stats reset at the start of predict
resetStats(e) ==
    IF e.profiling_enabled_
    THEN [e EXCEPT !.last_stats_ =
             [DefaultStats EXCEPT !.layer_times =
                 [i \in 1..Len(e.model_.layers_) |-> 0]]]
    ELSE e

\* predict with validateInput called after executeForwardPass
predict_validatesLate(e, input, clk) ==
    LET e1 == resetStats(e)
        fp == executeForwardPass(e1, input, clk.layer)
        v == validateInput(fp.engine, input)
        e2 == IF e1.profiling_enabled_
              THEN updateMemoryUsage(
                       [fp.engine EXCEPT !.last_stats_.total_time =
                           SumSeq(clk.layer)])
              ELSE fp.engine
    IN  IF fp.err # NoError
        THEN [engine |-> fp.engine, err |-> fp.err, returned |-> FALSE,
              result |-> DefaultTensor, phases |-> <<"Idle">> \o fp.phases,
              log |-> fp.log]
        ELSE IF v # NoError
        THEN [engine |-> fp.engine, err |-> v, returned |-> FALSE,
              result |-> DefaultTensor,
              phases |-> <<"Idle">> \o fp.phases \o <<"Failed">>,
              log |-> fp.log]
        ELSE [engine |-> e2, err |-> NoError, returned |-> TRUE,
              result |-> fp.output,
              phases |-> <<"Idle">> \o fp.phases
                         \o <<"InputValidated", "Done">>,
              log |-> fp.log]

\* InferenceEngine::predict (predictEnd is its body, e1 being the engine
\* after the reset of the stats and fp what executeForwardPass throws or
\* returns when it is reached). clk holds the clock readings of the call:
\* clk.layer[i + 1] is the time layer i took (the time spent outside the
\* layers stays below one tick). The outcome is the engine after the call, the
\* exception thrown (if any), the tensor returned (if any), the phases
\* the call went through and the forward invocations it made.
predictEnd(e1, input, clk, fp) ==
    LET v == validateInput(e1, input)
        e2 == IF e1.profiling_enabled_
              THEN updateMemoryUsage(
                       [fp.engine EXCEPT !.last_stats_.total_time =
                           SumSeq(clk.layer)])
              ELSE fp.engine
    IN  IF v # NoError
        THEN [engine |-> e1, err |-> v, returned |-> FALSE,
              result |-> DefaultTensor, phases |-> <<"Idle", "Failed">>,
              log |-> <<>>]
        ELSE IF fp.err # NoError
        THEN [engine |-> fp.engine, err |-> fp.err, returned |-> FALSE,
              result |-> DefaultTensor,
              phases |-> <<"Idle", "InputValidated">> \o fp.phases,
              log |-> fp.log]
        ELSE [engine |-> e2, err |-> NoError, returned |-> TRUE,
              result |-> fp.output,
              phases |-> <<"Idle", "InputValidated">> \o fp.phases
                         \o <<"Done">>,
              log |-> fp.log]

predict(e, input, clk) ==
    predictEnd(resetStats(e), input, clk,
               executeForwardPass(resetStats(e), input, clk.layer))

\* one record of the item log: the predict call on item index of a batch
\* (index 1 for a direct predict call) and what it threw or returned
Item(i, input, clk, p) ==
    [index |-> i, input |-> input, clk |-> clk, err |-> p.err,
     returned |-> p.returned, result |-> p.result, phases |-> p.phases,
     log |-> p.log]

\* the loop of predictBatch going on to the next item when predict threw
RECURSIVE predictBatchLoop_skipFailed(_, _, _, _, _, _)
predictBatchLoop_skipFailed(e, inputs, clk, i, outputs, items) ==
    IF i > Len(inputs)
    THEN [engine |-> e, err |-> NoError, returned |-> TRUE,
          outputs |-> outputs, items |-> items]
    ELSE LET p == predict(e, inputs[i], clk)
             it == Append(items, Item(i, inputs[i], clk, p))
         IN  predictBatchLoop_skipFailed(p.engine, inputs, clk, i + 1,
                 IF p.err # NoError THEN outputs
                 ELSE Append(outputs, p.result), it)

\* the loop of predictBatch from position i (1-based) on; every item of
\* one batch is timed by the same clock readings clk
RECURSIVE predictBatchLoop(_, _, _, _, _, _)
\* the rest of one pass through the loop, p being what predict(inputs[i])
\* threw or returned: the exception leaves predictBatch, a result is
\* pushed and the loop goes on
predictBatchLoopStep(inputs, clk, i, outputs, items, p) ==
    IF p.err # NoError
    THEN [engine |-> p.engine, err |-> p.err, returned |-> FALSE,
          outputs |-> <<>>,
          items |-> Append(items, Item(i, inputs[i], clk, p))]
    ELSE predictBatchLoop(p.engine, inputs, clk, i + 1,
                          Append(outputs, p.result),
                          Append(items, Item(i, inputs[i], clk, p)))

predictBatchLoop(e, inputs, clk, i, outputs, items) ==
    IF i > Len(inputs)
    THEN [engine |-> e, err |-> NoError, returned |-> TRUE,
          outputs |-> outputs, items |-> items]
    ELSE predictBatchLoopStep(inputs, clk, i, outputs, items,
                              predict(e, inputs[i], clk))

\* InferenceEngine::predictBatch
predictBatch(e, inputs, clk) ==
    IF inputs = <<>>
    THEN [engine |-> e, err |-> Throw("invalid_argument", "EmptyBatch"),
          returned |-> FALSE, outputs |-> <<>>, items |-> <<>>]
    ELSE predictBatchLoop(e, inputs, clk, 1, <<>>, <<>>)

\* -------------------------------------------------------- Tensor objects
\* Tensor objects with their buffers: objs maps the caller's variables to
\* the fields of the object each holds, data_ being the address of the
\* owned float array (nullptr for none), and heap maps an address to the
\* array allocated there. Every operation yields the objects and the heap
\* after it and the exception it threw, if any.
nullptr == 0

Slots == {"a", "b"}

Addresses == {1, 2, 3}

\* a variable that holds no object (not constructed, or construction threw)
NoObject ==
    [exists |-> FALSE, shape_ |-> <<>>, total_size_ |-> 0,
     dtype_ |-> "FLOAT32", data_ |-> nullptr]

\* no array is allocated anywhere
EmptyHeap == [p \in Addresses |-> [allocated |-> FALSE, cells |-> <<>>]]

\* the address operator new[] hands out: one that is not allocated
FreeAddress(h) ==
    CHOOSE p \in Addresses :
        /\ ~h[p].allocated
        /\ \A q \in Addresses : ~h[q].allocated => p <= q

\* std::make_unique<float[]>(n) followed by filling it with cells
Allocate(h, cells) ==
    [h EXCEPT ![FreeAddress(h)] = [allocated |-> TRUE, cells |-> cells]]

\* ~unique_ptr<float[]>: delete[] of the owned array, if any
Release(h, p) == IF p = nullptr THEN h ELSE [h EXCEPT ![p] = EmptyHeap[p]]

\* the array a Tensor owns; reading through a null data_ has no value
Cells(h, t) == IF t.data_ = nullptr THEN <<>> ELSE h[t.data_].cells

\* a read or write through data_ that is null
NullDereference == Throw("undefined_behavior", "NullDereference")

Outcome(o, h, err) == [objs |-> o, heap |-> h, err |-> err]

\* Tensor::Tensor() into variable s
Tensor_default(o, h, s) ==
    Outcome([o EXCEPT ![s] = [NoObject EXCEPT !.exists = TRUE]], h, NoError)

\* Tensor::Tensor(shape, dtype) into variable s
Tensor_shape(o, h, s, shape, dtype) ==
    IF validateShape(shape) # "none"
    THEN Outcome(o, h, Throw("invalid_argument", "InvalidShape"))
    ELSE Outcome([o EXCEPT ![s] =
                     [exists |-> TRUE, shape_ |-> shape,
                      total_size_ |-> Product(shape), dtype_ |-> dtype,
                      data_ |-> FreeAddress(h)]],
                 Allocate(h, [i \in 1..Product(shape) |-> 0]), NoError)

\* the constructor comparing the data size before validating the shape
Tensor_data_sizeFirst(o, h, s, shape, data, dtype) ==
    IF Len(data) # Product(shape)
    THEN Outcome(o, h, Throw("invalid_argument", "SizeMismatch"))
    ELSE Tensor_shape(o, h, s, shape, dtype)

\* Tensor::Tensor(shape, data, dtype) into variable s
Tensor_data(o, h, s, shape, data, dtype) ==
    IF validateShape(shape) # "none"
    THEN Outcome(o, h, Throw("invalid_argument", "InvalidShape"))
    ELSE IF Len(data) # Product(shape)
    THEN Outcome(o, h, Throw("invalid_argument", "SizeMismatch"))
    ELSE Outcome([o EXCEPT ![s] =
                     [exists |-> TRUE, shape_ |-> shape,
                      total_size_ |-> Product(shape), dtype_ |-> dtype,
                      data_ |-> FreeAddress(h)]],
                 Allocate(h, data), NoError)

\* Tensor::Tensor(const Tensor& other) into variable d, other being o[s];
\* std::copy reads total_size_ floats through other.data_
Tensor_copy(o, h, d, s) ==
    IF o[s].total_size_ > 0 /\ o[s].data_ = nullptr
    THEN Outcome(o, h, NullDereference)
    ELSE Outcome([o EXCEPT ![d] = [o[s] EXCEPT !.exists = TRUE,
                                             !.data_ = FreeAddress(h)]],
                 Allocate(h, [i \in 1..o[s].total_size_ |-> Cells(h, o[s])[i]]),
                 NoError)

\* the copy assignment taking the array of the source instead of a copy
Tensor_copy_assign_shallow(o, h, d, s) ==
    IF d = s THEN Outcome(o, h, NoError)
    ELSE Outcome([o EXCEPT ![d] = o[s]], Release(h, o[d].data_), NoError)

\* Tensor::operator=(const Tensor& other): o[d] = o[s]; the new array is
\* allocated before the old one is deleted
Tensor_copy_assign(o, h, d, s) ==
    IF d = s THEN Outcome(o, h, NoError)
    ELSE IF o[s].total_size_ > 0 /\ o[s].data_ = nullptr
    THEN Outcome(o, h, NullDereference)
    ELSE Outcome([o EXCEPT ![d] = [o[s] EXCEPT !.data_ = FreeAddress(h)]],
                 Release(Allocate(h, [i \in 1..o[s].total_size_ |->
                                         Cells(h, o[s])[i]]),
                         o[d].data_),
                 NoError)

\* what a move leaves in the source: shape_ moved from (empty), data_
\* null, total_size_ and dtype_ as they were
MovedFrom(t) == [t EXCEPT !.shape_ = <<>>, !.data_ = nullptr]

\* Tensor::Tensor(Tensor&& other) into variable d, other being o[s]
Tensor_move(o, h, d, s) ==
    Outcome([o EXCEPT ![d] = [o[s] EXCEPT !.exists = TRUE],
                      ![s] = MovedFrom(o[s])],
            h, NoError)

\* Tensor::operator=(Tensor&& other): o[d] = std::move(o[s])
Tensor_move_assign(o, h, d, s) ==
    IF d = s THEN Outcome(o, h, NoError)
    ELSE Outcome([o EXCEPT ![d] = o[s], ![s] = MovedFrom(o[s])],
                 Release(h, o[d].data_), NoError)

\* reshape comparing the number of dimensions instead of the product
Tensor_reshape_rank(o, h, s, new_shape) ==
    IF Len(new_shape) # Len(o[s].shape_)
    THEN Outcome(o, h, Throw("invalid_argument", "InvalidArgument"))
    ELSE Outcome([o EXCEPT ![s].shape_ = new_shape], h, NoError)

\* Tensor::reshape on o[s]
Tensor_reshape(o, h, s, new_shape) ==
    IF Product(new_shape) # o[s].total_size_
    THEN Outcome(o, h, Throw("invalid_argument", "InvalidArgument"))
    ELSE Outcome([o EXCEPT ![s].shape_ = new_shape], h, NoError)

\* Tensor::at on o[s] followed by the assignment of value through the
\* reference it returns; offset is what calculateIndex returned
Tensor_at(o, h, s, indices, value) ==
    IF calculateIndexError(o[s].shape_, indices) = "InvalidArgument"
    THEN [objs |-> o, heap |-> h, offset |-> -1,
          err |-> Throw("invalid_argument", "InvalidArgument")]
    ELSE IF calculateIndexError(o[s].shape_, indices) = "OutOfRange"
    THEN [objs |-> o, heap |-> h, offset |-> -1,
          err |-> Throw("out_of_range", "OutOfRange")]
    ELSE IF o[s].data_ = nullptr
    THEN [objs |-> o, heap |-> h, err |-> NullDereference,
          offset |-> calculateIndex(o[s].shape_, indices)]
    ELSE IF calculateIndex(o[s].shape_, indices) >= Len(h[o[s].data_].cells)
    THEN [objs |-> o, heap |-> h, err |-> Throw("undefined_behavior", "OutOfBounds"),
          offset |-> calculateIndex(o[s].shape_, indices)]
    ELSE [objs |-> o,
          heap |-> [h EXCEPT ![o[s].data_].cells[
                       calculateIndex(o[s].shape_, indices) + 1] = value],
          err |-> NoError,
          offset |-> calculateIndex(o[s].shape_, indices)]

\* the float operation of one compound assignment, on fixed-point values
ElementOp(op, x, y) ==
    IF op = "add" THEN x + y
    ELSE IF op = "sub" THEN x - y
    ELSE IF op = "mul" THEN FMul(x, y)
    ELSE IF y < 0 THEN FDiv(-x, -y)
    ELSE FDiv(x, y)

\* the element loop of operator+=, -=, *= and /= on object t with operand
\* other, from element i (0-based) on: the heap after it and the exception
\* that ended it; operator/= tests the divisor of element i after it has
\* already divided the elements before i
RECURSIVE OpAssignLoop(_, _, _, _, _)
OpAssignLoop(h, t, other, op, i) ==
    IF i >= t.total_size_ THEN [heap |-> h, err |-> NoError]
    ELSE IF other.data_ = nullptr \/ t.data_ = nullptr
    THEN [heap |-> h, err |-> NullDereference]
    ELSE IF i + 1 > Len(h[other.data_].cells) \/ i + 1 > Len(h[t.data_].cells)
    THEN [heap |-> h, err |-> Throw("undefined_behavior", "OutOfBounds")]
    ELSE IF op = "div" /\ h[other.data_].cells[i + 1] = 0
    THEN [heap |-> h, err |-> Throw("invalid_argument", "DivisionByZero")]
    ELSE OpAssignLoop(
             [h EXCEPT ![t.data_].cells[i + 1] =
                 ElementOp(op, h[t.data_].cells[i + 1],
                           h[other.data_].cells[i + 1])],
             t, other, op, i + 1)

\* Tensor::operator+=, -=, *=, /= of object t with operand other
OpAssign(h, t, other, op) ==
    IF t.shape_ # other.shape_
    THEN [heap |-> h, err |-> Throw("invalid_argument", "ShapeMismatch")]
    ELSE OpAssignLoop(h, t, other, op, 0)

\* the end of operator+, -, *, / called as o[d] = o[l] op o[r], or as the
\* initialiser of o[d]: result is the local copy of o[l] and r what the
\* compound assignment on it gave; an exception destroys result, otherwise
\* result is moved into o[d]
Tensor_binary_end(o, d, result, r) ==
    IF r.err # NoError
    THEN Outcome(o, Release(r.heap, result.data_), r.err)
    ELSE Outcome([o EXCEPT ![d] = [result EXCEPT !.exists = TRUE]],
                 Release(r.heap, o[d].data_), NoError)

\* the copy of o[l] that operator+, -, *, / start from
BinaryResult(o, h, l) == [o[l] EXCEPT !.data_ = FreeAddress(h)]

\* operator+, -, *, /: Tensor result(lhs); result op= rhs; return result
Tensor_binary(o, h, d, l, r, op) ==
    IF o[l].total_size_ > 0 /\ o[l].data_ = nullptr
    THEN Outcome(o, h, NullDereference)
    ELSE Tensor_binary_end(
             o, d, BinaryResult(o, h, l),
             OpAssign(Allocate(h, [i \in 1..o[l].total_size_ |->
                                      Cells(h, o[l])[i]]),
                      BinaryResult(o, h, l), o[r], op))

\* ----------------------------------------------------------- ModelLoader
\* A file is the sequence of its bytes; a read position counts the bytes
\* consumed. Every reader yields the exception it threw, the position
\* after it (on a short read: the position of that read and in want the
\* number of bytes it asked for) and in val what it read.
RECURSIVE LittleEndian(_)
LittleEndian(bytes) ==
    IF bytes = <<>> THEN 0 ELSE Head(bytes) + 256 * LittleEndian(Tail(bytes))

\* the float a little-endian IEEE-754 single stands for, in thousandths,
\* from its sign, exponent and leading 15 mantissa bits; magnitudes of
\* 2^16 and above are outside the range of these values
FloatOfBytes(b) ==
    LET e == (b[4] % 128) * 2 + b[3] \div 128
        m == 32768 + (b[3] % 128) * 256 + b[2]
        mag == IF e < 115 THEN 0
               ELSE RoundDiv(m * One, 2^(IF e > 142 THEN 0 ELSE 142 - e))
    IN  IF b[4] >= 128 THEN -mag ELSE mag

\* the float array file.read filled from bytes
Floats(bytes) ==
    [i \in 1..(Len(bytes) \div SizeofFloat) |->
        FloatOfBytes(SubSeq(bytes, SizeofFloat * (i - 1) + 1, SizeofFloat * i))]

ReadFailure(type, kind, pos, n) ==
    [err |-> Throw(type, kind), pos |-> pos, want |-> n, val |-> <<>>]

\* file.read of n bytes at pos followed by the test of file.good()
readBinary(file, pos, n) ==
    IF pos + n > Len(file)
    THEN ReadFailure("runtime_error", "TruncatedFile", pos, n)
    ELSE [err |-> NoError, pos |-> pos + n, want |-> 0,
          val |-> SubSeq(file, pos + 1, pos + n)]

\* the loops reading n more uint32 dimensions after shape
RECURSIVE readDims(_, _, _, _)
readDimsStep(file, n, shape, r) ==
    IF r.err # NoError THEN r
    ELSE readDims(file, r.pos, n - 1, Append(shape, LittleEndian(r.val)))

readDims(file, pos, n, shape) ==
    IF n = 0 THEN [err |-> NoError, pos |-> pos, want |-> 0, val |-> shape]
    ELSE readDimsStep(file, n, shape, readBinary(file, pos, 4))

\* a length-prefixed shape record of the trailer
readShapeStep(file, r) ==
    IF r.err # NoError THEN r
    ELSE readDims(file, r.pos, LittleEndian(r.val), <<>>)

readShape(file, pos) == readShapeStep(file, readBinary(file, pos, 4))

\* loadTensor that does not test the stream after reading the payload
loadTensorData_unchecked(shape, p) ==
    [err |-> NoError, pos |-> p.pos, want |-> 0,
     val |-> TensorOfShape(shape, "FLOAT32")]

\* ModelLoader::loadTensor from the payload on
loadTensorData(shape, p) ==
    IF p.err # NoError THEN p
    ELSE [p EXCEPT !.val = TensorOfData(shape, Floats(p.val), "FLOAT32")]

\* ModelLoader::loadTensor from the construction of the tensor on
loadTensorShape(file, dtype_raw, s) ==
    IF s.err # NoError THEN s
    ELSE IF validateShape(s.val) # "none"
    THEN ReadFailure("invalid_argument", "InvalidShape", s.pos, 0)
    ELSE IF dtype_raw # 0
    THEN ReadFailure("runtime_error", "UnsupportedDType", s.pos, 0)
    ELSE loadTensorData(s.val,
                        readBinary(file, s.pos, Product(s.val) * SizeofFloat))

\* ModelLoader::loadTensor from the rank on
loadTensorRank(file, dtype_raw, r) ==
    IF r.err # NoError THEN r
    ELSE IF LittleEndian(r.val) = 0 \/ LittleEndian(r.val) > MaxRank
    THEN ReadFailure("runtime_error", "InvalidRank", r.pos, 0)
    ELSE loadTensorShape(file, dtype_raw,
                         readDims(file, r.pos, LittleEndian(r.val), <<>>))

loadTensorDType(file, d) ==
    IF d.err # NoError THEN d
    ELSE loadTensorRank(file, d.val[1], readBinary(file, d.pos, 4))

\* ModelLoader::loadTensor
loadTensor(file, pos) == loadTensorDType(file, readBinary(file, pos, 1))

\* the constructor without the comparison of the two dimensions
LinearLayer_error_ranksOnly(weights, bias) ==
    IF rank(weights) # 2 THEN "InvalidRank"
    ELSE IF rank(bias) # 1 THEN "InvalidRank"
    ELSE "none"

\* LinearLayer::LinearLayer: the kind of the exception, or "none"
LinearLayer_error(weights, bias) ==
    IF rank(weights) # 2 THEN "InvalidRank"
    ELSE IF rank(bias) # 1 THEN "InvalidRank"
    ELSE IF weights.shape_[2] # bias.shape_[1] THEN "DimensionMismatch"
    ELSE "none"

\* case LayerType::LINEAR of loadLayer
loadLinearEnd(w, b) ==
    IF b.err # NoError THEN b
    ELSE IF LinearLayer_error(w.val, b.val) # "none"
    THEN ReadFailure("invalid_argument", LinearLayer_error(w.val, b.val),
                     b.pos, 0)
    ELSE [b EXCEPT !.val = LinearLayer(w.val, b.val)]

loadLinear(file, w) ==
    IF w.err # NoError THEN w ELSE loadLinearEnd(w, loadTensor(file, w.pos))

\* loadLayer constructing a SoftmaxLayer for tag 2 and a SigmoidLayer for
\* tag 3
loadLayerSwitch_swapped(file, t) ==
    IF t.err # NoError THEN t
    ELSE IF t.val[1] = LINEAR THEN loadLinear(file, loadTensor(file, t.pos))
    ELSE IF t.val[1] = RELU THEN [t EXCEPT !.val = ReLULayer]
    ELSE IF t.val[1] = SIGMOID THEN [t EXCEPT !.val = SoftmaxLayer]
    ELSE IF t.val[1] = SOFTMAX THEN [t EXCEPT !.val = SigmoidLayer]
    ELSE ReadFailure("runtime_error", "UnknownLayerType", t.pos, 0)

\* ModelLoader::loadLayer from the switch on
loadLayerSwitch(file, t) ==
    IF t.err # NoError THEN t
    ELSE IF t.val[1] = LINEAR THEN loadLinear(file, loadTensor(file, t.pos))
    ELSE IF t.val[1] = RELU THEN [t EXCEPT !.val = ReLULayer]
    ELSE IF t.val[1] = SIGMOID THEN [t EXCEPT !.val = SigmoidLayer]
    ELSE IF t.val[1] = SOFTMAX THEN [t EXCEPT !.val = SoftmaxLayer]
    ELSE ReadFailure("runtime_error", "UnknownLayerType", t.pos, 0)

\* ModelLoader::loadLayer
loadLayer(file, pos) == loadLayerSwitch(file, readBinary(file, pos, 1))

\* the ModelFormat::Header that 16 bytes are
Header(bytes) ==
    [magic |-> LittleEndian(SubSeq(bytes, 1, 4)),
     version_major |-> LittleEndian(SubSeq(bytes, 5, 6)),
     version_minor |-> LittleEndian(SubSeq(bytes, 7, 8)),
     num_layers |-> LittleEndian(SubSeq(bytes, 9, 12)),
     reserved |-> LittleEndian(SubSeq(bytes, 13, 16))]

\* validateHeader rejecting a count of MaxLayers itself
validateHeader_ceilingInclusive(header) ==
    IF header.magic # MAGIC_NUMBER THEN "FormatError"
    ELSE IF header.version_major # VERSION_MAJOR THEN "UnsupportedVersion"
    ELSE IF header.num_layers = 0 THEN "EmptyModel"
    ELSE IF header.num_layers >= MaxLayers THEN "TooManyLayers"
    ELSE "none"

\* ModelLoader::validateHeader: the kind of the exception, or "none"
validateHeader(header) ==
    IF header.magic # MAGIC_NUMBER THEN "FormatError"
    ELSE IF header.version_major # VERSION_MAJOR THEN "UnsupportedVersion"
    ELSE IF header.num_layers = 0 THEN "EmptyModel"
    ELSE IF header.num_layers > MaxLayers THEN "TooManyLayers"
    ELSE "none"

\* what loadFromFile gives its caller: the exception, wrapped by the catch
\* block, or the model; pos, want and layers tell how far the reading went
Loaded(r, m, layers) ==
    [err |-> IF r.err = NoError THEN NoError
             ELSE [Throw("runtime_error", r.err.kind) EXCEPT
                      !.cause = r.err.type],
     model |-> IF r.err = NoError THEN m ELSE NullPtr,
     pos |-> r.pos, want |-> r.want, layers |-> layers]

\* loadFromFile from the output shape record on
loadOutputShape(m, i, o) ==
    IF o.err # NoError THEN Loaded(o, m, Len(m.layers_))
    ELSE Loaded(o, setOutputShape(setInputShape(m, i.val), o.val),
                Len(m.layers_))

\* loadFromFile from the input shape record on
loadInputShape(file, m, i) ==
    IF i.err # NoError THEN Loaded(i, m, Len(m.layers_))
    ELSE loadOutputShape(m, i, readShape(file, i.pos))

\* the layer loop of loadFromFile: n layers declared, those of m loaded
RECURSIVE loadLayers(_, _, _, _)
loadLayersStep(file, n, m, l) ==
    IF l.err # NoError THEN Loaded(l, m, Len(m.layers_) + 1)
    ELSE loadLayers(file, l.pos, n, addLayer(m, l.val))

loadLayers(file, pos, n, m) ==
    IF Len(m.layers_) >= n THEN loadInputShape(file, m, readShape(file, pos))
    ELSE loadLayersStep(file, n, m, loadLayer(file, pos))

\* loadFromFile from validateHeader on
loadHeader(file, h) ==
    IF h.err # NoError THEN Loaded(h, NullPtr, 0)
    ELSE IF validateHeader(Header(h.val)) # "none"
    THEN Loaded(ReadFailure("runtime_error", validateHeader(Header(h.val)),
                            h.pos, 0),
                NullPtr, 0)
    ELSE loadLayers(file, h.pos, Header(h.val).num_layers, NewModel)

\* a path at which there is no file
NoFile == <<-1>>

\* ModelLoader::loadFromFile on the path of file
loadFromFile(file) ==
    IF file = NoFile
    THEN Loaded(ReadFailure("runtime_error", "OpenFailed", 0, 0), NullPtr, 0)
    ELSE loadHeader(file, readBinary(file, 0, HeaderBytes))

\* -------------------------------------------------------- InferenceUtils
\* std::partial_sort(first, first + k, last, comp) on pairs of an index and
\* a value, comp(a, b) being a.second > b.second: the orders it may leave
\* the pairs in. No pair from position i + 1 on goes before the pair at
\* position i <= k; the order of equivalent pairs and of the pairs behind
\* position k is unspecified.
partial_sort(pairs, k) ==
    {[i \in 1..Len(pairs) |-> pairs[q[i]]] :
        q \in {f \in [1..Len(pairs) -> 1..Len(pairs)] :
                  /\ \A i, j \in 1..Len(pairs) : i # j => f[i] # f[j]
                  /\ \A i \in 1..k, j \in 1..Len(pairs) :
                         i < j => ~(pairs[f[j]][2] > pairs[f[i]][2])}}

\* getTopK without the resize to k
getTopK_noResize(output, k) ==
    IF rank(output) # 1
    THEN {[err |-> Throw("invalid_argument", "InvalidRank"), pairs |-> <<>>]}
    ELSE {[err |-> NoError, pairs |-> sorted] :
             sorted \in partial_sort(
                 [i \in 1..output.total_size_ |-> <<i - 1, output.data_[i]>>],
                 IF k > output.total_size_ THEN output.total_size_ ELSE k)}

\* InferenceUtils::getTopK: the outcomes it may have, each the exception
\* thrown and the vector of (index, value) pairs returned
getTopK(output, k) ==
    IF rank(output) # 1
    THEN {[err |-> Throw("invalid_argument", "InvalidRank"), pairs |-> <<>>]}
    ELSE {[err |-> NoError,
           pairs |-> SubSeq(sorted, 1, IF k > output.total_size_
                                       THEN output.total_size_ ELSE k)] :
             sorted \in partial_sort(
                 [i \in 1..output.total_size_ |-> <<i - 1, output.data_[i]>>],
                 IF k > output.total_size_ THEN output.total_size_ ELSE k)}

\* ------------------------------------------------- the caller's values
\* weights {2,3} and bias {3} of the test fixture (inference_engine_test.cpp)
W23 == TensorOfData(<<2, 3>>, <<1000, 2000, 3000, 4000, 5000, 6000>>, "FLOAT32")

B3 == TensorOfData(<<3>>, <<100, 200, 300>>, "FLOAT32")

Lin23 == LinearLayer(W23, B3)

\* a model built by addLayer, setInputShape and setOutputShape
RECURSIVE addLayers(_, _)
addLayers(m, layers) ==
    IF layers = <<>> THEN m
    ELSE addLayers(addLayer(m, Head(layers)), Tail(layers))

ModelOf(layers, input_shape, output_shape) ==
    setOutputShape(setInputShape(addLayers(NewModel, layers), input_shape),
                   output_shape)

\* the models a caller hands to the constructor: the test fixture, models
\* whose layers or declared output shape do not fit, and models that lack
\* layers or a declared shape
ModelSet ==
    {ModelOf(<<Lin23, ReLULayer>>, <<2>>, <<3>>),
     ModelOf(<<Lin23, ReLULayer>>, <<2>>, <<2>>),
     ModelOf(<<Lin23, Lin23>>, <<2>>, <<3>>),
     ModelOf(<<SigmoidLayer, SoftmaxLayer>>, <<2>>, <<2>>),
     ModelOf(<<SoftmaxLayer, ReLULayer>>, <<0>>, <<0>>),
     ModelOf(<<Lin23>>, <<1, 2>>, <<1, 3>>),
     NewModel,
     setOutputShape(setInputShape(NewModel, <<2>>), <<3>>),
     addLayers(NewModel, <<Lin23, ReLULayer>>),
     setInputShape(addLayers(NewModel, <<Lin23, ReLULayer>>), <<2>>),
     setOutputShape(addLayers(NewModel, <<Lin23, ReLULayer>>), <<3>>)}

\* Tensor() reshaped to {0}: a tensor of size 0 that has a rank
EmptyTensor == Reshaped(DefaultTensor, <<0>>)

In2a == TensorOfData(<<2>>, <<1000, 2000>>, "FLOAT32")

In2b == TensorOfData(<<2>>, <<-1000, 3000>>, "FLOAT32")

In3i8 == TensorOfData(<<3>>, <<1000, 2000, 3000>>, "INT8")

InputSet ==
    {In2a, In2b, In3i8,
     TensorOfData(<<2>>, <<1000, 2000>>, "INT8"),
     TensorOfData(<<1, 2>>, <<1000, 2000>>, "FLOAT32"),
     EmptyTensor}

BatchItemSet == {In2a, In2b, In3i8}

BatchSet == UNION {[1..n -> BatchItemSet] : n \in 0..MaxBatch}

\* the clock readings of one predict call on an engine of n layers: the
\* ticks each layer took; the readings are used only when profiling is
\* enabled
ZeroClock(n) == [layer |-> [i \in 1..n |-> 0]]

ClockSet(e) ==
    IF e.profiling_enabled_
    THEN [layer : [1..Len(e.model_.layers_) -> 0..MaxTick]]
    ELSE {ZeroClock(Len(e.model_.layers_))}

\* ----------------------------------------------------------------- state
VARIABLES
    model,      \* the caller's std::unique_ptr<Model>
    engine,     \* the InferenceEngine object
    call,       \* the last call on the engine: its arguments, what it threw
                \* or returned, and in items the predict calls it made
    twin,       \* a second engine built from the same model that receives
                \* the same calls except preallocateBuffers and clearBuffers
    twin_call,  \* what the last call threw or returned on the twin
    objs,       \* the caller's Tensor variables: the object each holds
    heap,       \* the float arrays the Tensor objects allocated
    tcall,      \* the last operation on the Tensor variables: its arguments,
                \* what it threw, and the objects and arrays before it
    nops,       \* the number of operations made on the Tensor variables
    load,       \* the file passed to loadFromFile and, once it was called,
                \* what it threw or returned and how far it read
    ops         \* the operands of a call of a TensorOps function, of
                \* getTopK or of a LinearLayer member and, once it was
                \* made, what it threw, returned and left in its operands

vars ==
    <<model, engine, call, twin, twin_call, objs, heap, tcall, nops, load,
      ops>>

\* what a program that only runs an engine leaves alone
tensor_vars == <<objs, heap, tcall, nops>>

\* what a program that only handles tensors leaves alone
engine_vars == <<model, engine, call, twin, twin_call>>

NoCall ==
    [op |-> "none", given |-> NullPtr, input |-> DefaultTensor,
     inputs |-> <<>>, clk |-> ZeroClock(0), err |-> NoError,
     returned |-> FALSE, result |-> DefaultTensor, outputs |-> <<>>,
     items |-> <<>>]

NoTwinCall ==
    [err |-> NoError, returned |-> FALSE, result |-> DefaultTensor,
     outputs |-> <<>>]

NoObjects == [s \in Slots |-> NoObject]

NoTensorCall ==
    [op |-> "none", form |-> "none", d |-> "none", s |-> "none",
     r |-> "none", shape |-> <<>>, data |-> <<>>, dtype |-> "FLOAT32", value |-> 0,
     err |-> NoError, offset |-> -1, pre_objs |-> NoObjects,
     pre_heap |-> EmptyHeap]

\* no call of loadFromFile yet
NoLoad ==
    [file |-> NoFile, called |-> FALSE, err |-> NoError, model |-> NullPtr,
     pos |-> 0, want |-> 0, layers |-> 0]

\* no call on operands yet: x, y and k are the arguments, r the tensor
\* passed as result or output, layer the LinearLayer called
NoOps ==
    [op |-> "none", x |-> DefaultTensor, y |-> DefaultTensor,
     r |-> DefaultTensor, k |-> 0, layer |-> ReLULayer, err |-> NoError,
     returned |-> FALSE, out |-> DefaultTensor, pairs |-> <<>>]

Init ==
    /\ model \in ModelSet
    /\ engine = NoEngine
    /\ call = NoCall
    /\ twin = NoEngine
    /\ twin_call = NoTwinCall
    /\ objs = NoObjects
    /\ heap = EmptyHeap
    /\ tcall = NoTensorCall
    /\ nops = 0
    /\ ops = NoOps
    /\ load = NoLoad

\* InferenceEngine engine(std::move(model)), or InferenceEngine engine(nullptr)
ConstructCall(m) ==
    /\ UNCHANGED <<tensor_vars, load, ops>>
    /\ call.op = "none"
    /\ model' = IF m = model THEN NullPtr ELSE model
    /\ engine' = InferenceEngine(m)
    /\ call' = [NoCall EXCEPT !.op = "construct", !.given = m,
                              !.err = InferenceEngine_error(m),
                              !.returned = InferenceEngine_error(m) = NoError]

\* engine.enableProfiling(enable)
EnableProfilingCall(enable) ==
    /\ UNCHANGED <<tensor_vars, load, ops>>
    /\ engine.exists
    /\ engine' = enableProfiling(engine, enable)
    /\ call' = [NoCall EXCEPT !.op = "enableProfiling", !.returned = TRUE]
    /\ UNCHANGED model

\* engine.predict(input)
PredictCall(input, clk) ==
    /\ UNCHANGED <<tensor_vars, load, ops>>
    /\ engine.exists
    /\ \E p \in {predict(engine, input, clk)} :
           /\ engine' = p.engine
           /\ call' = [NoCall EXCEPT !.op = "predict", !.input = input,
                          !.clk = clk, !.err = p.err,
                          !.returned = p.returned, !.result = p.result,
                          !.items = <<Item(1, input, clk, p)>>]
    /\ UNCHANGED model

\* engine.predictBatch(inputs)
PredictBatchCall(inputs, clk) ==
    /\ UNCHANGED <<tensor_vars, load, ops>>
    /\ engine.exists
    /\ \E p \in {predictBatch(engine, inputs, clk)} :
           /\ engine' = p.engine
           /\ call' = [NoCall EXCEPT !.op = "predictBatch",
                          !.inputs = inputs, !.clk = clk, !.err = p.err,
                          !.returned = p.returned, !.outputs = p.outputs,
                          !.items = p.items]
    /\ UNCHANGED model

\* the calls of a program that has one engine
Construct(m) == ConstructCall(m) /\ UNCHANGED <<twin, twin_call>>

EnableProfiling(enable) ==
    EnableProfilingCall(enable) /\ UNCHANGED <<twin, twin_call>>

\* engine.preallocateBuffers()
PreallocateBuffers ==
    /\ UNCHANGED <<tensor_vars, load, ops>>
    /\ engine.exists
    /\ engine' = preallocateBuffers(engine)
    /\ call' = [NoCall EXCEPT !.op = "preallocateBuffers", !.returned = TRUE]
    /\ UNCHANGED <<model, twin, twin_call>>

\* engine.clearBuffers()
ClearBuffers ==
    /\ UNCHANGED <<tensor_vars, load, ops>>
    /\ engine.exists
    /\ engine' = clearBuffers(engine)
    /\ call' = [NoCall EXCEPT !.op = "clearBuffers", !.returned = TRUE]
    /\ UNCHANGED <<model, twin, twin_call>>

Predict(input, clk) == PredictCall(input, clk) /\ UNCHANGED <<twin, twin_call>>

PredictBatch(inputs, clk) ==
    PredictBatchCall(inputs, clk) /\ UNCHANGED <<twin, twin_call>>

Next ==
    \/ \E m \in {model, NullPtr} : Construct(m)
    \/ \E enable \in BOOLEAN : EnableProfiling(enable)
    \/ PreallocateBuffers
    \/ ClearBuffers
    \/ \E input \in InputSet : \E clk \in ClockSet(engine) : Predict(input, clk)
    \/ \E inputs \in BatchSet : \E clk \in ClockSet(engine) :
           PredictBatch(inputs, clk)

Spec == Init /\ [][Next]_vars

\* the calls of a program that has two engines built from the same model
\* and makes every call on both, except preallocateBuffers and clearBuffers,
\* which only the first engine receives; a layer takes less than one tick
ConstructBoth(m) ==
    /\ ConstructCall(m)
    /\ twin' = InferenceEngine(m)
    /\ twin_call' = NoTwinCall

EnableProfilingBoth(enable) ==
    /\ EnableProfilingCall(enable)
    /\ twin' = enableProfiling(twin, enable)
    /\ twin_call' = [NoTwinCall EXCEPT !.returned = TRUE]

PredictBoth(input) ==
    /\ PredictCall(input, ZeroClock(getNumLayers(engine)))
    /\ \E q \in {predict(twin, input, ZeroClock(getNumLayers(twin)))} :
           /\ twin' = q.engine
           /\ twin_call' = [NoTwinCall EXCEPT !.err = q.err,
                               !.returned = q.returned, !.result = q.result]

PredictBatchBoth(inputs) ==
    /\ PredictBatchCall(inputs, ZeroClock(getNumLayers(engine)))
    /\ \E q \in {predictBatch(twin, inputs, ZeroClock(getNumLayers(twin)))} :
           /\ twin' = q.engine
           /\ twin_call' = [NoTwinCall EXCEPT !.err = q.err,
                               !.returned = q.returned, !.outputs = q.outputs]

NextTwin ==
    \/ \E m \in {model, NullPtr} : ConstructBoth(m)
    \/ \E enable \in BOOLEAN : EnableProfilingBoth(enable)
    \/ PreallocateBuffers
    \/ ClearBuffers
    \/ \E input \in InputSet : PredictBoth(input)
    \/ \E inputs \in BatchSet : PredictBatchBoth(inputs)

SpecTwin == Init /\ [][NextTwin]_vars

\* the calls of a program that handles Tensor variables a and b
\* the shapes, element lists, index lists and element types it passes
ShapeSet == {<<>>, <<1>>, <<2>>, <<1, 2>>, <<2, 0>>, <<2, 3>>}

DataSet == {<<>>, <<1500>>, <<1000, 2000>>, <<2000, 0>>}

IndexSet ==
    {<<>>, <<0>>, <<1>>, <<2>>, <<0, 1>>, <<1, 0>>, <<1, 2>>, <<2, 0>>}

\* the value written through the reference at() returns
Written == 1500

\* the declarations the program starts with: none for a variable declared
\* later, otherwise one of the three constructors
DeclSet ==
    {[ctor |-> "none", shape |-> <<>>, data |-> <<>>, dtype |-> "FLOAT32"],
     [ctor |-> "default", shape |-> <<>>, data |-> <<>>, dtype |-> "FLOAT32"],
     [ctor |-> "data", shape |-> <<2>>, data |-> <<1000, 2000>>,
      dtype |-> "FLOAT32"],
     [ctor |-> "data", shape |-> <<2>>, data |-> <<2000, 0>>,
      dtype |-> "FLOAT32"],
     [ctor |-> "data", shape |-> <<1, 2>>, data |-> <<-1000, 1500>>,
      dtype |-> "FLOAT32"],
     [ctor |-> "shape", shape |-> <<1>>, data |-> <<>>, dtype |-> "FLOAT32"],
     [ctor |-> "shape", shape |-> <<2, 3>>, data |-> <<>>, dtype |-> "INT8"]}

Declared(o, h, s, c) ==
    IF c.ctor = "none" THEN Outcome(o, h, NoError)
    ELSE IF c.ctor = "default" THEN Tensor_default(o, h, s)
    ELSE IF c.ctor = "shape" THEN Tensor_shape(o, h, s, c.shape, c.dtype)
    ELSE Tensor_data(o, h, s, c.shape, c.data, c.dtype)

InitTensor ==
    /\ model = NullPtr
    /\ engine = NoEngine
    /\ call = NoCall
    /\ twin = NoEngine
    /\ twin_call = NoTwinCall
    /\ \E ca \in DeclSet, cb \in DeclSet :
           \E first \in {Declared(NoObjects, EmptyHeap, "a", ca)} :
               \E p \in {Declared(first.objs, first.heap, "b", cb)} :
                   /\ objs = p.objs
                   /\ heap = p.heap
    /\ tcall = NoTensorCall
    /\ nops = 0
    /\ ops = NoOps
    /\ load = NoLoad

\* one operation of a program that has not run into undefined behaviour:
\* c its arguments, out what it gave
TensorStep(c, out) ==
    /\ nops < MaxOps
    /\ tcall.err.type # "undefined_behavior"
    /\ objs' = out.objs
    /\ heap' = out.heap
    /\ tcall' = [c EXCEPT !.err = out.err, !.pre_objs = objs,
                          !.pre_heap = heap]
    /\ nops' = nops + 1
    /\ UNCHANGED <<engine_vars, load, ops>>

\* Tensor s;
ConstructDefault(s) ==
    /\ ~objs[s].exists
    /\ TensorStep([NoTensorCall EXCEPT !.op = "Tensor()", !.d = s],
                  Tensor_default(objs, heap, s))

\* Tensor s(shape, dtype);
ConstructShape(s, shape, dtype) ==
    /\ ~objs[s].exists
    /\ TensorStep([NoTensorCall EXCEPT !.op = "Tensor(shape)", !.d = s,
                                       !.shape = shape, !.dtype = dtype],
                  Tensor_shape(objs, heap, s, shape, dtype))

\* Tensor s(shape, data, dtype);
ConstructData(s, shape, data, dtype) ==
    /\ ~objs[s].exists
    /\ TensorStep([NoTensorCall EXCEPT !.op = "Tensor(shape,data)", !.d = s,
                      !.shape = shape, !.data = data, !.dtype = dtype],
                  Tensor_data(objs, heap, s, shape, data, dtype))

\* Tensor d(s);
CopyConstruct(d, s) ==
    /\ ~objs[d].exists /\ objs[s].exists
    /\ TensorStep([NoTensorCall EXCEPT !.op = "copy", !.d = d, !.s = s],
                  Tensor_copy(objs, heap, d, s))

\* d = s;
CopyAssign(d, s) ==
    /\ objs[d].exists /\ objs[s].exists
    /\ TensorStep([NoTensorCall EXCEPT !.op = "copy=", !.d = d, !.s = s],
                  Tensor_copy_assign(objs, heap, d, s))

\* Tensor d(std::move(s));
MoveConstruct(d, s) ==
    /\ ~objs[d].exists /\ objs[s].exists
    /\ TensorStep([NoTensorCall EXCEPT !.op = "move", !.d = d, !.s = s],
                  Tensor_move(objs, heap, d, s))

\* d = std::move(s);
MoveAssign(d, s) ==
    /\ objs[d].exists /\ objs[s].exists
    /\ TensorStep([NoTensorCall EXCEPT !.op = "move=", !.d = d, !.s = s],
                  Tensor_move_assign(objs, heap, d, s))

\* s.reshape(new_shape);
Reshape(s, new_shape) ==
    /\ objs[s].exists
    /\ TensorStep([NoTensorCall EXCEPT !.op = "reshape", !.d = s,
                                       !.shape = new_shape],
                  Tensor_reshape(objs, heap, s, new_shape))

\* s.at(indices) = Written;
At(s, indices) ==
    /\ objs[s].exists
    /\ nops < MaxOps
    /\ \E p \in {Tensor_at(objs, heap, s, indices, Written)} :
           TensorStep([NoTensorCall EXCEPT !.op = "at", !.d = s,
                          !.shape = indices, !.value = Written,
                          !.offset = p.offset],
                      p)

\* d += s; d -= s; d *= s; d /= s;
OpAssignCall(d, s, op) ==
    /\ objs[d].exists /\ objs[s].exists
    /\ nops < MaxOps
    /\ \E p \in {OpAssign(heap, objs[d], objs[s], op)} :
           TensorStep([NoTensorCall EXCEPT !.op = op, !.form = "compound",
                                           !.d = d, !.s = d, !.r = s],
                      Outcome(objs, p.heap, p.err))

\* d = l + r; and the like, or Tensor d = l + r; where d is not declared
BinaryCall(d, l, r, op) ==
    /\ objs[l].exists /\ objs[r].exists
    /\ TensorStep([NoTensorCall EXCEPT !.op = op, !.form = "binary",
                                       !.d = d, !.s = l, !.r = r],
                  Tensor_binary(objs, heap, d, l, r, op))

NextTensor ==
    \/ \E s \in Slots : ConstructDefault(s)
    \/ \E s \in Slots, shape \in ShapeSet, dtype \in {"FLOAT32", "INT8"} :
           ConstructShape(s, shape, dtype)
    \/ \E s \in Slots, shape \in ShapeSet, data \in DataSet :
           ConstructData(s, shape, data, "FLOAT32")
    \/ \E d \in Slots, s \in Slots : CopyConstruct(d, s)
    \/ \E d \in Slots, s \in Slots : CopyAssign(d, s)
    \/ \E d \in Slots, s \in Slots : MoveConstruct(d, s)
    \/ \E d \in Slots, s \in Slots : MoveAssign(d, s)
    \/ \E s \in Slots, new_shape \in ShapeSet : Reshape(s, new_shape)
    \/ \E s \in Slots, indices \in IndexSet : At(s, indices)
    \/ \E d \in Slots, s \in Slots, op \in {"add", "sub", "mul", "div"} : OpAssignCall(d, s, op)
    \/ \E d \in Slots, l \in Slots, r \in Slots, op \in {"add", "sub", "mul", "div"} :
           BinaryCall(d, l, r, op)

SpecTensor == InitTensor /\ [][NextTensor]_vars

\* the calls of a program that loads a model file
\* the bytes of an unsigned integer of 2 and of 4 bytes on the host
\* a uint32_t as file.write stores it
U32(n) ==
    <<n % 256, (n \div 256) % 256, (n \div 65536) % 256, n \div 16777216>>

HeaderOf(magic, major, minor, num_layers, reserved) ==
    U32(magic) \o <<major % 256, major \div 256>> \o
    <<minor % 256, minor \div 256>> \o U32(num_layers) \o U32(reserved)

\* a rank followed by the dimensions, as written before a tensor payload
\* and in the trailer
RECURSIVE DimBytes(_)
DimBytes(shape) ==
    IF shape = <<>> THEN <<>> ELSE U32(Head(shape)) \o DimBytes(Tail(shape))

ShapeRecord(shape) == U32(Len(shape)) \o DimBytes(shape)

\* a Linear layer record: the tag, the weights record and the bias record,
\* with the weights 1..6 and the bias 0.1, 0.2, 0.3 of
\* createSimpleModelFile as float32 bytes
LinearRecord(dtype, wshape, bshape) ==
    <<LINEAR>> \o <<dtype>> \o ShapeRecord(wshape) \o
    <<0, 0, 128, 63>> \o <<0, 0, 0, 64>> \o <<0, 0, 64, 64>> \o
    <<0, 0, 128, 64>> \o <<0, 0, 160, 64>> \o <<0, 0, 192, 64>> \o
    <<dtype>> \o ShapeRecord(bshape) \o
    <<205, 204, 204, 61>> \o <<205, 204, 76, 62>> \o <<154, 153, 153, 62>>

\* what createSimpleModelFile writes after the header
SimpleBody ==
    LinearRecord(0, <<2, 3>>, <<3>>) \o <<RELU>> \o
    ShapeRecord(<<2>>) \o ShapeRecord(<<3>>)

\* the file of createSimpleModelFile and a file of one Sigmoid layer
SimpleModelFile == HeaderOf(MAGIC_NUMBER, VERSION_MAJOR, 0, 2, 0) \o SimpleBody

SigmoidModelFile ==
    HeaderOf(MAGIC_NUMBER, VERSION_MAJOR, 0, 1, 0) \o <<SIGMOID>> \o
    ShapeRecord(<<2>>) \o ShapeRecord(<<2>>)

CompleteFiles == {SimpleModelFile, SigmoidModelFile}

\* the magic of createInvalidMagicFile
InvalidMagic == 305419896

\* headers of every kind, alone and in front of the body of the simple
\* model
HeaderVariants ==
    {HeaderOf(magic, major, minor, n, reserved) \o body :
        magic \in {MAGIC_NUMBER, InvalidMagic}, major \in {0, 1, 2},
        minor \in {0, 7}, n \in {0, 1, 2, MaxLayers, MaxLayers + 1},
        reserved \in {0, 9}, body \in {<<>>, SimpleBody}}

\* files of one layer whose record does not load
BadLayerFiles ==
    {HeaderOf(MAGIC_NUMBER, VERSION_MAJOR, 0, 1, 0) \o layer \o
         ShapeRecord(<<2>>) \o ShapeRecord(<<3>>) :
        layer \in {<<9>>,
                   LinearRecord(1, <<2, 3>>, <<3>>),
                   LinearRecord(0, <<>>, <<3>>),
                   LinearRecord(0, <<1, 1, 1, 1, 1, 1, 1, 1, 6>>, <<3>>),
                   LinearRecord(0, <<2, 0>>, <<3>>),
                   LinearRecord(0, <<6>>, <<3>>),
                   LinearRecord(0, <<3, 2>>, <<3>>)}}

\* the files a caller passes: the file of createInvalidMagicFile, no file,
\* the complete files and every truncation of them, the files above, and
\* the files of one or two layers of every kind and of tags 4 and 255
FileSet ==
    {NoFile, U32(InvalidMagic)}
        \cup UNION {{SubSeq(file, 1, k) : k \in 0..Len(file)} :
                        file \in CompleteFiles}
        \cup HeaderVariants \cup BadLayerFiles
        \cup {HeaderOf(MAGIC_NUMBER, VERSION_MAJOR, 0,
                       IF second = <<>> THEN 1 ELSE 2, 0) \o
                  first \o second \o ShapeRecord(<<2, 2>>) \o ShapeRecord(<<3>>) :
                 first \in {<<RELU>>, <<SIGMOID>>, <<SOFTMAX>>, <<4>>, <<255>>,
                            LinearRecord(0, <<2, 3>>, <<3>>)},
                 second \in {<<>>, <<RELU>>, <<SIGMOID>>, <<SOFTMAX>>, <<4>>,
                             <<255>>, LinearRecord(0, <<2, 3>>, <<3>>)}}

\* the tensors a caller passes to the LinearLayer constructor
WeightSet ==
    {DefaultTensor, EmptyTensor, In2a, B3, W23,
     Reshaped(DefaultTensor, <<2, 0>>),
     TensorOfData(<<2, 2>>, <<-1000, 2000, 3000, -500>>, "FLOAT32"),
     TensorOfData(<<1, 1, 2>>, <<-1000, 2000>>, "FLOAT32")}

InitLoader ==
    /\ model = NullPtr
    /\ engine = NoEngine
    /\ call = NoCall
    /\ twin = NoEngine
    /\ twin_call = NoTwinCall
    /\ objs = NoObjects
    /\ heap = EmptyHeap
    /\ tcall = NoTensorCall
    /\ nops = 0
    /\ ops = NoOps
    /\ \E file \in FileSet : load = [NoLoad EXCEPT !.file = file]

\* auto model = ModelLoader::loadFromFile(path);
LoadFromFile ==
    /\ ~load.called
    /\ \E p \in {loadFromFile(load.file)} :
           load' = [file |-> load.file, called |-> TRUE, err |-> p.err,
                    model |-> p.model, pos |-> p.pos, want |-> p.want,
                    layers |-> p.layers]
    /\ UNCHANGED <<engine_vars, tensor_vars, ops>>

\* LinearLayer layer(weights, bias);
ConstructLinear(weights, bias) ==
    /\ ops.op = "none"
    /\ ops' = [ops EXCEPT
                  !.op = "LinearLayer", !.x = weights, !.y = bias,
                  !.err = IF LinearLayer_error(weights, bias) = "none"
                          THEN NoError
                          ELSE Throw("invalid_argument",
                                     LinearLayer_error(weights, bias)),
                  !.returned = LinearLayer_error(weights, bias) = "none",
                  !.layer = IF LinearLayer_error(weights, bias) = "none"
                            THEN LinearLayer(weights, bias) ELSE @]
    /\ UNCHANGED <<engine_vars, tensor_vars, load>>

NextLoader ==
    \/ LoadFromFile
    \/ \E weights \in WeightSet, bias \in WeightSet :
           ConstructLinear(weights, bias)

SpecLoader == InitLoader /\ [][NextLoader]_vars

\* ------------------------------------------------------------------------
\* The program that calls one function on operands: matmul, relu, softmax,
\* LinearLayer::forward or getTopK.
\* the tensors a caller passes: the default tensor and tensors of rank 1,
\* 2 and 3 made by the data constructor, among them two identity matrices,
\* and default tensors reshaped to {0}, {0,2} and {2,0}
TensorSet ==
    {DefaultTensor, EmptyTensor, In2a, In2b, W23,
     Reshaped(DefaultTensor, <<0, 2>>), Reshaped(DefaultTensor, <<2, 0>>),
     TensorOfData(<<4>>, <<100, 800, 300, 200>>, "FLOAT32"),
     TensorOfData(<<3>>, <<500, 500, 200>>, "FLOAT32"),
     TensorOfData(<<3>>, <<2000, 2000, 2000>>, "FLOAT32"),
     TensorOfData(<<2>>, <<50000, -50000>>, "FLOAT32"),
     TensorOfData(<<1, 2>>, <<1000, 2000>>, "FLOAT32"),
     TensorOfData(<<2, 2>>, <<1000, 0, 0, 1000>>, "FLOAT32"),
     TensorOfData(<<2, 2>>, <<-1000, 2000, 3000, -500>>, "FLOAT32"),
     TensorOfData(<<3, 3>>, <<1000, 0, 0, 0, 1000, 0, 0, 0, 1000>>, "FLOAT32"),
     TensorOfData(<<1, 1, 2>>, <<-1000, 2000>>, "FLOAT32")}

\* the LinearLayer objects a caller has
LayerSet ==
    {Lin23,
     LinearLayer(TensorOfData(<<2, 2>>, <<-1000, 2000, 3000, -500>>, "FLOAT32"),
                 TensorOfData(<<2>>, <<500, -500>>, "FLOAT32"))}

InitOps ==
    /\ model = NullPtr
    /\ engine = NoEngine
    /\ call = NoCall
    /\ twin = NoEngine
    /\ twin_call = NoTwinCall
    /\ objs = NoObjects
    /\ heap = EmptyHeap
    /\ tcall = NoTensorCall
    /\ nops = 0
    /\ load = NoLoad
    /\ \E x \in TensorSet, y \in TensorSet :
           ops = [NoOps EXCEPT !.x = x, !.y = y]

\* TensorOps::matmul(x, y, r)
Matmul(r) ==
    /\ ops.op = "none"
    /\ \E p \in {matmul(ops.x, ops.y, r)} :
           ops' = [ops EXCEPT !.op = "matmul", !.r = r, !.err = p.err,
                              !.returned = p.err = NoError, !.out = p.result]
    /\ UNCHANGED <<engine_vars, tensor_vars, load>>

\* TensorOps::relu(x)
Relu ==
    /\ ops.op = "none"
    /\ ops' = [ops EXCEPT !.op = "relu", !.returned = TRUE,
                          !.out = relu(ops.x)]
    /\ UNCHANGED <<engine_vars, tensor_vars, load>>

\* TensorOps::softmax(x)
Softmax ==
    /\ ops.op = "none"
    /\ \E p \in {softmax(ops.x)} :
           ops' = [ops EXCEPT !.op = "softmax", !.err = p.err,
                              !.returned = p.err = NoError, !.out = p.tensor]
    /\ UNCHANGED <<engine_vars, tensor_vars, load>>

\* layer.forward(x, r)
LinearForward(layer, r) ==
    /\ ops.op = "none"
    /\ \E p \in {LinearLayer_forward(layer, ops.x, r)} :
           ops' = [ops EXCEPT !.op = "forward", !.layer = layer, !.r = r,
                              !.err = p.err, !.returned = p.err = NoError,
                              !.out = p.output]
    /\ UNCHANGED <<engine_vars, tensor_vars, load>>

\* InferenceUtils::getTopK(x, k)
TopK(k) ==
    /\ ops.op = "none"
    /\ \E p \in getTopK(ops.x, k) :
           ops' = [ops EXCEPT !.op = "getTopK", !.k = k, !.err = p.err,
                              !.returned = p.err = NoError, !.pairs = p.pairs]
    /\ UNCHANGED <<engine_vars, tensor_vars, load>>

NextOps ==
    \/ \E r \in {DefaultTensor, In2a} : Matmul(r)
    \/ Relu
    \/ Softmax
    \/ \E layer \in LayerSet, r \in {DefaultTensor, In2a} :
           LinearForward(layer, r)
    \/ \E k \in 0..5 : TopK(k)

SpecOps == InitOps /\ [][NextOps]_vars

\* ------------------------------------------------------------ properties
\* the predict calls of the last call on the engine
Items == {call.items[k] : k \in 1..Len(call.items)}

Layers == engine.model_.layers_

Last(seq) == seq[Len(seq)]

ShapeDiffers(t, shape) ==
    \/ rank(t) # Len(shape)
    \/ \E i \in 1..Len(shape) : t.shape_[i] # shape[i]

\* C1: a predict call on an input whose rank or some dimension differs from
\* the declared input shape fails with ShapeMismatch and invokes no layer;
\* an input of the declared shape but another dtype fails with
\* UnsupportedDType and invokes no layer; a layer is invoked only on an
\* input that passed both checks.
C1_ShapeMismatchBeforeLayers ==
    \A it \in Items :
        /\ ShapeDiffers(it.input, getInputShape(engine)) =>
               /\ it.err = Throw("invalid_argument", "ShapeMismatch")
               /\ ~it.returned
               /\ it.log = <<>>
        /\ (~ShapeDiffers(it.input, getInputShape(engine))
            /\ it.input.dtype_ # "FLOAT32") =>
               /\ it.err = Throw("invalid_argument", "UnsupportedDType")
               /\ ~it.returned
               /\ it.log = <<>>
        /\ it.log # <<>> =>
               /\ it.input.shape_ = getInputShape(engine)
               /\ it.input.dtype_ = "FLOAT32"

\* a predict call on an input with a wrong dimension and a wrong dtype
C1_Witness ==
    /\ call.op = "predict"
    /\ call.input = In3i8
    /\ getInputShape(engine) = <<2>>
    /\ call.err.kind = "ShapeMismatch"

PhaseOrder ==
    <<"Idle", "InputValidated", "LayersExecuted", "OutputValidated", "Done">>

\* C2: the phases of every predict call are Idle, InputValidated,
\* LayersExecuted, OutputValidated, Done in that order, or a proper prefix
\* of them followed by Failed; a tensor is returned exactly when the call
\* reached Done, and then the input passed validation, every layer ran
\* without throwing and the output has the declared shape; a failed call
\* returns nothing, ran no layer if it failed at input validation, and with
\* profiling enabled left the total time and memory figure unwritten.
C2_PhaseOrder ==
    \A it \in Items :
        /\ \/ it.phases = PhaseOrder
           \/ \E k \in 1..3 : it.phases = SubSeq(PhaseOrder, 1, k) \o <<"Failed">>
        /\ it.returned <=> it.phases = PhaseOrder
        /\ it.returned =>
               /\ it.err = NoError
               /\ validateInput(engine, it.input) = NoError
               /\ Len(it.log) = Len(Layers)
               /\ \A j \in 1..Len(it.log) : ~it.log[j].threw
               /\ it.result.shape_ = getOutputShape(engine)
        /\ ~it.returned =>
               /\ it.err # NoError
               /\ it.result = DefaultTensor
               /\ (it.phases = <<"Idle", "Failed">> => it.log = <<>>)
               /\ (it.phases = <<"Idle", "InputValidated", "Failed">> =>
                       it.log # <<>> /\ Last(it.log).threw)
               /\ (engine.profiling_enabled_ /\ it = Last(call.items)) =>
                       /\ engine.last_stats_.total_time = 0
                       /\ engine.last_stats_.memory_usage_bytes = 0

\* a predict call that failed after input validation and all layers
C2_Witness ==
    /\ call.op = "predict"
    /\ call.items[1].phases =
           <<"Idle", "InputValidated", "LayersExecuted", "Failed">>
    /\ engine.profiling_enabled_

\* C3: a successful predict on a model of N layers invokes forward once per
\* layer, in the order 0..N-1; layer 0 receives a copy of the caller's
\* input, layer i > 0 receives the output of layer i-1, each invocation
\* yields the output of the layer at that position, and the tensor
\* returned is the output of layer N-1.
C3_LayersInOrder ==
    \A it \in Items : it.returned =>
        /\ Len(it.log) = Len(Layers)
        /\ \A j \in 1..Len(it.log) :
               /\ it.log[j].index = j - 1
               /\ it.log[j].layer_type = Layers[j].type_
               /\ it.log[j].input =
                      (IF j = 1 THEN it.input ELSE it.log[j - 1].output)
               /\ it.log[j].output =
                      forward(Layers[j], it.log[j].input, DefaultTensor).output
        /\ it.result = Last(it.log).output

\* a successful predict on a model of two layers that change the tensor
C3_Witness ==
    /\ call.op = "predict"
    /\ call.returned
    /\ Len(call.items[1].log) = 2
    /\ call.items[1].log[1].output # call.input
    /\ call.result # call.items[1].log[1].output

\* C4: when the forward of the layer at position i throws, predict throws a
\* LayerExecutionError that carries i, the type tag of that layer and the
\* inner cause; no layer after i is invoked and nothing is returned; and a
\* LayerExecutionError is thrown in no other case.
C4_LayerFailure ==
    \A it \in Items :
        /\ (it.log # <<>> /\ Last(it.log).threw) =>
               /\ it.err.type = "runtime_error"
               /\ it.err.kind = "LayerExecutionError"
               /\ it.err.layer = Len(it.log) - 1
               /\ it.err.layer = Last(it.log).index
               /\ it.err.layer_type = Layers[Len(it.log)].type_
               /\ it.err.cause =
                      forward(Layers[Len(it.log)], Last(it.log).input,
                              DefaultTensor).err.kind
               /\ it.err.cause # "none"
               /\ ~it.returned
               /\ it.result = DefaultTensor
        /\ \A j \in 1..(Len(it.log) - 1) : ~it.log[j].threw
        /\ it.err.kind = "LayerExecutionError" =>
               it.log # <<>> /\ Last(it.log).threw

\* the first of two layers threw: a Softmax layer on a tensor of size 0
C4_Witness ==
    /\ call.op = "predict"
    /\ call.err.kind = "LayerExecutionError"
    /\ call.err.layer = 0
    /\ call.err.layer_type = SOFTMAX
    /\ call.err.cause = "EmptyInput"
    /\ Len(Layers) = 2

\* C5: a tensor returned by predict has the declared output shape; when all
\* layers ran and the shape of the last output differs from the declared
\* output shape, predict throws OutputShapeMismatch, which names no layer,
\* and returns nothing.
C5_OutputShape ==
    \A it \in Items :
        /\ it.returned => it.result.shape_ = getOutputShape(engine)
        /\ (/\ Len(it.log) = Len(Layers)
            /\ ~Last(it.log).threw
            /\ Last(it.log).output.shape_ # getOutputShape(engine)) =>
               /\ it.err = Throw("runtime_error", "OutputShapeMismatch")
               /\ ~it.returned
               /\ it.result = DefaultTensor

\* both layers of the model ran and the output shape {3} is not the
\* declared {2}
C5_Witness ==
    /\ call.op = "predict"
    /\ call.err.kind = "OutputShapeMismatch"
    /\ Len(call.items[1].log) = 2
    /\ Last(call.items[1].log).output.shape_ = <<3>>
    /\ getOutputShape(engine) = <<2>>

\* C6: after a predict call made while profiling is disabled the stats are
\* at their default values, whatever calls came before.
C6_StatsDefaultWhenDisabled ==
    (call.items # <<>> /\ ~engine.profiling_enabled_) =>
        engine.last_stats_ = DefaultStats

\* what the last predict call, made with profiling enabled, measured: the
\* ticks of the layers that ran without throwing, and nothing else
MeasuredLayerTimes(it) ==
    [i \in 1..Len(Layers) |->
        IF i <= Len(it.log) /\ ~it.log[i].threw THEN it.clk.layer[i] ELSE 0]

\* C7: after a call that made predict calls with profiling enabled, the
\* stats hold what the last of these predict calls measured and nothing
\* else: one duration per layer, in execution order, and the total time of
\* that call; when that call failed, the total time and the memory figure
\* are zero and so is the duration of every layer that did not complete.
C7_StatsOfLastCall ==
    (call.items # <<>> /\ engine.profiling_enabled_) =>
        LET it == Last(call.items)
        IN  /\ Len(engine.last_stats_.layer_times) = Len(Layers)
            /\ engine.last_stats_.layer_times = MeasuredLayerTimes(it)
            /\ engine.last_stats_.total_time =
                   (IF it.returned THEN SumSeq(it.clk.layer) ELSE 0)
            /\ ~it.returned => engine.last_stats_.memory_usage_bytes = 0

\* a successful batch of two items with profiling enabled whose two layers
\* took different times
C7_Witness ==
    /\ call.op = "predictBatch"
    /\ call.returned
    /\ engine.profiling_enabled_
    /\ Len(call.inputs) = 2
    /\ Len(engine.last_stats_.layer_times) = 2
    /\ engine.last_stats_.layer_times[1] # engine.last_stats_.layer_times[2]

\* C8: predictBatch throws EmptyBatch exactly when inputs is empty;
\* otherwise it calls predict on the items in order, stops at the first item
\* on which predict throws, and then throws that exception and returns
\* nothing; when no item fails it returns one output per input, the k-th
\* being what predict returns on the k-th input.
C8_Batch ==
    call.op = "predictBatch" =>
        /\ call.err.kind = "EmptyBatch" <=> call.inputs = <<>>
        /\ call.inputs = <<>> =>
               /\ call.err = Throw("invalid_argument", "EmptyBatch")
               /\ call.items = <<>>
               /\ ~call.returned
               /\ call.outputs = <<>>
        /\ call.inputs # <<>> =>
               /\ Len(call.items) \in 1..Len(call.inputs)
               /\ \A k \in 1..Len(call.items) :
                      /\ call.items[k].index = k
                      /\ call.items[k].input = call.inputs[k]
                      /\ call.items[k].err =
                             predict(engine, call.inputs[k], call.clk).err
                      /\ call.items[k].result =
                             predict(engine, call.inputs[k], call.clk).result
                      /\ k < Len(call.items) => call.items[k].returned
               /\ call.returned <=>
                      /\ Len(call.items) = Len(call.inputs)
                      /\ Last(call.items).returned
               /\ call.returned =>
                      /\ call.err = NoError
                      /\ Len(call.outputs) = Len(call.inputs)
                      /\ \A k \in 1..Len(call.inputs) :
                             call.outputs[k] = call.items[k].result
               /\ ~call.returned =>
                      /\ ~Last(call.items).returned
                      /\ call.err = Last(call.items).err
                      /\ call.err # NoError
                      /\ call.outputs = <<>>

\* a batch of two items whose first item fails: the second is not processed
C8_Witness ==
    /\ call.op = "predictBatch"
    /\ Len(call.inputs) = 2
    /\ Len(call.items) = 1
    /\ call.err.kind = "ShapeMismatch"
    /\ validateInput(engine, call.inputs[2]) = NoError

\* C9: preallocateBuffers and clearBuffers throw in no state, and every
\* predict and predictBatch call throws and returns what the same call
\* throws and returns on the engine that never saw either of them.
C9_BufferHooks ==
    /\ call.op \in {"preallocateBuffers", "clearBuffers"} =>
           call.err = NoError /\ call.returned
    /\ call.op \in {"predict", "predictBatch"} =>
           /\ twin.exists
           /\ call.err = twin_call.err
           /\ call.returned = twin_call.returned
           /\ call.result = twin_call.result
           /\ call.outputs = twin_call.outputs

\* a successful predict on an engine whose buffers are preallocated, the
\* twin having none
C9_Witness ==
    /\ call.op = "predict"
    /\ call.returned
    /\ twin_call.returned
    /\ engine.buffers_allocated_
    /\ Len(engine.intermediate_tensors_) = 2
    /\ twin.exists
    /\ ~twin.buffers_allocated_

\* C10: the constructor succeeds exactly when the model is non-null, has a
\* layer and has both shapes declared; otherwise it throws NullModel,
\* EmptyModel or UndeclaredShapes, checked in that order, and there is no
\* engine; the engine it builds reports the input shape, the output shape
\* and the number of layers of the model it was given.
C10_Construction ==
    call.op = "construct" =>
        LET m == call.given
        IN  /\ call.returned <=>
                   /\ ~m.null
                   /\ m.layers_ # <<>>
                   /\ m.input_shape_ # <<>>
                   /\ m.output_shape_ # <<>>
            /\ call.returned <=> engine.exists
            /\ call.returned <=> call.err = NoError
            /\ m.null => call.err = Throw("invalid_argument", "NullModel")
            /\ (~m.null /\ m.layers_ = <<>>) =>
                   call.err = Throw("invalid_argument", "EmptyModel")
            /\ (/\ ~m.null
                /\ m.layers_ # <<>>
                /\ (m.input_shape_ = <<>> \/ m.output_shape_ = <<>>)) =>
                   call.err = Throw("invalid_argument", "UndeclaredShapes")
            /\ call.returned =>
                   /\ getInputShape(engine) = m.input_shape_
                   /\ getOutputShape(engine) = m.output_shape_
                   /\ getNumLayers(engine) = Len(m.layers_)

\* the constructor given a model without layers and without shapes
C10_Witness ==
    /\ call.op = "construct"
    /\ call.err.kind = "EmptyModel"
    /\ ~call.given.null
    /\ call.given.input_shape_ = <<>>
    /\ ~engine.exists

\* -------------------------------------------------------------- tensors
\* the Tensor objects the program holds
Tensors == {objs[s] : s \in {v \in Slots : objs[v].exists}}

\* the number of floats in the array a Tensor owns
BufferLength(t) == IF t.data_ = nullptr THEN 0 ELSE Len(heap[t.data_].cells)

\* C11: every tensor the public operations can produce has a non-empty
\* shape without a zero dimension, a size() equal to the product of its
\* shape, and a buffer of exactly size() elements.
C11_TensorInvariants ==
    \A t \in Tensors :
        /\ t.shape_ # <<>>
        /\ \A i \in 1..Len(t.shape_) : t.shape_[i] # 0
        /\ t.total_size_ = Product(t.shape_)
        /\ BufferLength(t) = t.total_size_

\* C12: after a move construction or a move assignment from another
\* variable the destination has the shape, size, dtype and buffer the
\* source had, and the source owns no buffer and reports rank 0 and size 0.
C12_MoveLeavesSourceEmpty ==
    (tcall.op \in {"move", "move="} /\ tcall.d # tcall.s) =>
        /\ objs[tcall.d].shape_ = tcall.pre_objs[tcall.s].shape_
        /\ objs[tcall.d].total_size_ = tcall.pre_objs[tcall.s].total_size_
        /\ objs[tcall.d].dtype_ = tcall.pre_objs[tcall.s].dtype_
        /\ objs[tcall.d].data_ = tcall.pre_objs[tcall.s].data_
        /\ objs[tcall.s].data_ = nullptr
        /\ Len(objs[tcall.s].shape_) = 0
        /\ objs[tcall.s].total_size_ = 0

\* the elements of the Tensor held by variable s, in buffer order
Elements(s) == Cells(heap, objs[s])

\* the elements it had before the last operation
ElementsBefore(s) == Cells(tcall.pre_heap, tcall.pre_objs[s])

\* C13: a copy construction or copy assignment from another variable gives
\* the destination the shape, size, dtype and element values of the source
\* in a buffer of its own and leaves the source as it was; a self-assignment
\* changes nothing; no two tensors ever own the same buffer, and a write
\* through at() or a compound assignment on one variable leaves the
\* elements of the other as they were.
C13_Copy ==
    /\ (tcall.op \in {"copy", "copy="} /\ tcall.err = NoError
            /\ tcall.d # tcall.s) =>
           /\ objs[tcall.d].exists
           /\ objs[tcall.d].shape_ = objs[tcall.s].shape_
           /\ objs[tcall.d].total_size_ = objs[tcall.s].total_size_
           /\ objs[tcall.d].dtype_ = objs[tcall.s].dtype_
           /\ Elements(tcall.d) = Elements(tcall.s)
           /\ objs[tcall.d].data_ # nullptr
           /\ objs[tcall.d].data_ # objs[tcall.s].data_
           /\ heap[objs[tcall.d].data_].allocated
           /\ objs[tcall.s] = tcall.pre_objs[tcall.s]
           /\ Elements(tcall.s) = ElementsBefore(tcall.s)
    /\ (tcall.op = "copy=" /\ tcall.d = tcall.s) =>
           /\ tcall.err = NoError
           /\ objs = tcall.pre_objs
           /\ heap = tcall.pre_heap
    /\ \A s \in Slots, t \in Slots :
           (s # t /\ objs[s].exists /\ objs[t].exists
                /\ objs[s].data_ # nullptr) =>
               objs[s].data_ # objs[t].data_
    /\ (tcall.op = "at" \/ tcall.form = "compound") =>
           \A t \in Slots \ {tcall.d} : Elements(t) = ElementsBefore(t)

\* b = a copied a's two elements over a b that owned another buffer
C13_Witness ==
    /\ tcall.op = "copy="
    /\ tcall.d # tcall.s
    /\ tcall.err = NoError
    /\ tcall.pre_objs[tcall.d].data_ # nullptr
    /\ tcall.pre_objs[tcall.d].shape_ # objs[tcall.s].shape_
    /\ objs[tcall.d].total_size_ = 2
    /\ Elements(tcall.d) = <<1000, 2000>>

\* the Tensor variable s as it was before the last operation
Before(s) == tcall.pre_objs[s]

\* C14: reshape(new_shape) throws InvalidArgument exactly when the product
\* of new_shape differs from size(), and then changes nothing; otherwise it
\* replaces the shape and nothing else, the elements staying as they were,
\* so that reshaping to any shape of equal product and back restores the
\* tensor with its elements.
C14_Reshape ==
    /\ tcall.op = "reshape" =>
           /\ tcall.err.kind = "InvalidArgument" <=>
                  Product(tcall.shape) # Before(tcall.d).total_size_
           /\ tcall.err # NoError =>
                  /\ tcall.err = Throw("invalid_argument", "InvalidArgument")
                  /\ objs = tcall.pre_objs
                  /\ heap = tcall.pre_heap
           /\ tcall.err = NoError =>
                  /\ objs = [tcall.pre_objs EXCEPT
                                ![tcall.d].shape_ = tcall.shape]
                  /\ heap = tcall.pre_heap
                  /\ Elements(tcall.d) = ElementsBefore(tcall.d)
    /\ \A s \in Slots, S2 \in ShapeSet :
           (objs[s].exists /\ Product(S2) = Product(objs[s].shape_)
                /\ Product(S2) = objs[s].total_size_) =>
               /\ Tensor_reshape(objs, heap, s, S2).err = NoError
               /\ Tensor_reshape(Tensor_reshape(objs, heap, s, S2).objs,
                                 Tensor_reshape(objs, heap, s, S2).heap,
                                 s, objs[s].shape_) =
                      Outcome(objs, heap, NoError)

\* a tensor of shape {1,2} was reshaped to {2} and kept its two elements
C14_Witness ==
    /\ tcall.op = "reshape"
    /\ tcall.err = NoError
    /\ Before(tcall.d).shape_ = <<1, 2>>
    /\ objs[tcall.d].shape_ = <<2>>
    /\ Elements(tcall.d) = <<-1000, 1500>>

\* sum_i indices[i] * prod_{j > i} shape[j]
RowMajorOffset(shape, indices) ==
    SumSeq([i \in 1..Len(indices) |->
               indices[i] * Product(SubSeq(shape, i + 1, Len(shape)))])

\* C15: at(indices) throws InvalidArgument exactly when the number of
\* indices differs from the rank, otherwise OutOfRange exactly when some
\* index is not below its dimension, and otherwise refers to the buffer
\* element at the row-major offset, which is below size() and differs for
\* different index lists.
C15_At ==
    tcall.op = "at" =>
        /\ tcall.err.kind = "InvalidArgument" <=>
               Len(tcall.shape) # Len(Before(tcall.d).shape_)
        /\ tcall.err.kind = "OutOfRange" <=>
               /\ Len(tcall.shape) = Len(Before(tcall.d).shape_)
               /\ \E i \in 1..Len(tcall.shape) :
                      tcall.shape[i] >= Before(tcall.d).shape_[i]
        /\ tcall.err.kind \notin {"InvalidArgument", "OutOfRange"} =>
               /\ tcall.err = NoError
               /\ tcall.offset =
                      RowMajorOffset(Before(tcall.d).shape_, tcall.shape)
               /\ tcall.offset < Before(tcall.d).total_size_
               /\ objs = tcall.pre_objs
               /\ Elements(tcall.d) =
                      [ElementsBefore(tcall.d) EXCEPT
                          ![tcall.offset + 1] = tcall.value]
               /\ \A other \in IndexSet :
                      (other # tcall.shape
                           /\ calculateIndexError(Before(tcall.d).shape_,
                                                  other) = "none") =>
                          calculateIndex(Before(tcall.d).shape_, other) #
                              tcall.offset

\* C16: construction from a shape throws InvalidShape exactly when the
\* shape is empty or has a zero dimension; construction from a shape and
\* data throws InvalidShape in the same cases and otherwise SizeMismatch
\* exactly when the data length differs from the product of the shape; a
\* construction that throws leaves no object and no array; one that
\* succeeds gives a tensor of that shape, of size the product of the shape,
\* holding the data in order, or zeros when no data is given.
C16_Construct ==
    tcall.op \in {"Tensor(shape)", "Tensor(shape,data)"} =>
        /\ tcall.err.kind = "InvalidShape" <=>
               \/ tcall.shape = <<>>
               \/ \E i \in 1..Len(tcall.shape) : tcall.shape[i] = 0
        /\ tcall.err.kind = "SizeMismatch" <=>
               /\ tcall.op = "Tensor(shape,data)"
               /\ tcall.shape # <<>>
               /\ \A i \in 1..Len(tcall.shape) : tcall.shape[i] # 0
               /\ Len(tcall.data) # Product(tcall.shape)
        /\ tcall.err.kind \notin {"InvalidShape", "SizeMismatch"} =>
               /\ tcall.err = NoError
               /\ objs[tcall.d].exists
               /\ objs[tcall.d].shape_ = tcall.shape
               /\ objs[tcall.d].total_size_ = Product(tcall.shape)
               /\ objs[tcall.d].dtype_ = tcall.dtype
               /\ objs[tcall.d].data_ # nullptr
               /\ Elements(tcall.d) =
                      IF tcall.op = "Tensor(shape,data)" THEN tcall.data
                      ELSE [i \in 1..Product(tcall.shape) |-> 0]
        /\ tcall.err # NoError =>
               /\ tcall.err.type = "invalid_argument"
               /\ objs = tcall.pre_objs
               /\ heap = tcall.pre_heap

\* Tensor b({2}, {2, 0}) was constructed next to another tensor
C16_Witness ==
    /\ tcall.op = "Tensor(shape,data)"
    /\ tcall.err = NoError
    /\ tcall.shape = <<2>>
    /\ Elements(tcall.d) = <<2000, 0>>
    /\ \E s \in Slots \ {tcall.d} : objs[s].data_ # nullptr

\* the operands of the last arithmetic operation own size() elements each
OperandsIntact ==
    /\ tcall.form \in {"compound", "binary"}
    /\ Len(ElementsBefore(tcall.s)) = Before(tcall.s).total_size_
    /\ Len(ElementsBefore(tcall.r)) = Before(tcall.r).total_size_

\* C17: d op= r and d = l op r, for op one of + - * /, throw ShapeMismatch
\* exactly when the shapes of the two operands differ; with equal shapes
\* the division throws DivisionByZero exactly when an element of the right
\* operand is zero; otherwise every element i of the result is
\* left[i] op right[i], the result being the left operand itself for the
\* compound form and a new tensor for the binary form, which leaves its
\* operands alone.
C17_Arithmetic ==
    OperandsIntact =>
        /\ tcall.err.kind = "ShapeMismatch" <=>
               Before(tcall.s).shape_ # Before(tcall.r).shape_
        /\ tcall.err.kind = "DivisionByZero" <=>
               /\ Before(tcall.s).shape_ = Before(tcall.r).shape_
               /\ tcall.op = "div"
               /\ \E i \in 1..Len(ElementsBefore(tcall.r)) :
                      ElementsBefore(tcall.r)[i] = 0
        /\ tcall.err.kind \notin {"ShapeMismatch", "DivisionByZero"} =>
               /\ tcall.err = NoError
               /\ objs[tcall.d].shape_ = Before(tcall.s).shape_
               /\ objs[tcall.d].total_size_ = Before(tcall.s).total_size_
               /\ objs[tcall.d].dtype_ = Before(tcall.s).dtype_
               /\ Elements(tcall.d) =
                      [i \in 1..Before(tcall.s).total_size_ |->
                          ElementOp(tcall.op, ElementsBefore(tcall.s)[i],
                                    ElementsBefore(tcall.r)[i])]
               /\ \A t \in Slots \ {tcall.d} :
                      objs[t] = Before(t) /\ Elements(t) = ElementsBefore(t)
               /\ tcall.form = "compound" => objs = tcall.pre_objs
               /\ tcall.form = "binary" =>
                      /\ objs[tcall.d].data_ # nullptr
                      /\ \A t \in Slots :
                             objs[tcall.d].data_ # Before(t).data_
        /\ tcall.err # NoError =>
               /\ tcall.err.type = "invalid_argument"
               /\ objs = tcall.pre_objs
               /\ tcall.form = "binary" \/ tcall.err.kind = "ShapeMismatch" =>
                      heap = tcall.pre_heap

\* ---------------------------------------------------------------- loader
\* the unsigned integer at bytes lo..hi of the file passed to loadFromFile
Field(lo, hi) == LittleEndian(SubSeq(load.file, lo, hi))

HeaderErrors ==
    {"FormatError", "UnsupportedVersion", "EmptyModel", "TooManyLayers"}

\* C18: on a file of at least 16 bytes loadFromFile throws FormatError if
\* the magic is not 0x4E4E494D, else UnsupportedVersion if the major
\* version is not 1, else EmptyModel if the layer count is 0, else
\* TooManyLayers if the count is above 1000; otherwise none of the four,
\* whatever the minor version and the reserved field, and the layers are
\* read; when one of the four is thrown nothing after the header was read.
C18_HeaderChecks ==
    (load.called /\ load.file # NoFile /\ Len(load.file) >= HeaderBytes) =>
        /\ load.err.kind = "FormatError" <=> Field(1, 4) # 1313753421
        /\ load.err.kind = "UnsupportedVersion" <=>
               Field(1, 4) = 1313753421 /\ Field(5, 6) # 1
        /\ load.err.kind = "EmptyModel" <=>
               Field(1, 4) = 1313753421 /\ Field(5, 6) = 1 /\ Field(9, 12) = 0
        /\ load.err.kind = "TooManyLayers" <=>
               /\ Field(1, 4) = 1313753421 /\ Field(5, 6) = 1
               /\ Field(9, 12) > 1000
        /\ load.err.kind \in HeaderErrors =>
               /\ load.err.type = "runtime_error"
               /\ load.pos = 16
               /\ load.layers = 0
               /\ load.model = NullPtr
        /\ load.err.kind \notin HeaderErrors => load.layers >= 1

\* a header declaring 1000 layers, minor version 7 and reserved 9 passed,
\* and the layers after it were read until the file ended
C18_Witness ==
    /\ load.called
    /\ Len(load.file) > HeaderBytes
    /\ Field(9, 12) = 1000
    /\ Field(7, 8) = 7
    /\ Field(13, 16) = 9
    /\ load.err.kind \notin HeaderErrors
    /\ load.layers >= 2
    /\ load.pos > HeaderBytes

\* C19: loadFromFile on a file of 4 bytes or more whose first 4 bytes are
\* not the magic 0x4E4E494D throws FormatError and returns no Model.
C19_WrongMagic ==
    (load.called /\ load.file # NoFile /\ Len(load.file) >= 4
         /\ Field(1, 4) # 1313753421) =>
        /\ load.err.kind = "FormatError"
        /\ load.model = NullPtr

\* the file passed is a complete file cut short
Truncated ==
    /\ load.file # NoFile
    /\ \E file \in CompleteFiles :
           /\ Len(load.file) < Len(file)
           /\ load.file = SubSeq(file, 1, Len(load.file))

\* the positions at which the reads of the simple model file start: the
\* header, then per layer the tag and per tensor the dtype, the rank, each
\* dimension and the payload, then the rank and each dimension of the two
\* trailer shapes
SimpleReadStarts ==
    {0, 16, 17, 18, 22, 26, 30, 54, 55, 59, 63, 75, 76, 80, 84, 88}

\* C20: loadFromFile on a complete file cut short at any length throws
\* TruncatedFile at the first read that the remaining bytes cannot
\* satisfy, every read before it having been satisfied; the complete files
\* load; and a load that throws, for whatever reason, returns no Model.
C20_Truncated ==
    load.called =>
        /\ Truncated =>
               /\ load.err.type = "runtime_error"
               /\ load.err.kind = "TruncatedFile"
               /\ load.pos <= Len(load.file)
               /\ load.pos + load.want > Len(load.file)
        /\ (Truncated /\ load.file = SubSeq(SimpleModelFile, 1, Len(load.file)))
               => /\ load.pos \in SimpleReadStarts
                  /\ \A p \in SimpleReadStarts :
                         p <= Len(load.file) => p <= load.pos
        /\ load.file \in CompleteFiles =>
               /\ load.err = NoError
               /\ ~load.model.null
               /\ load.pos = Len(load.file)
               /\ Len(load.model.layers_) = Field(9, 12)
        /\ load.err # NoError => load.model = NullPtr

\* the simple model file cut inside the payload of the bias tensor, after
\* the Linear tag and the weights tensor were read
C20_Witness ==
    /\ load.called
    /\ load.file = SubSeq(SimpleModelFile, 1, 70)
    /\ load.err.kind = "TruncatedFile"
    /\ load.pos = 63
    /\ load.want = 12
    /\ load.layers = 1
    /\ load.model = NullPtr

\* the dimensions stored as r uint32 values from byte offset pos on
DimsAt(pos, r) == [i \in 1..r |-> Field(pos + 4 * i - 3, pos + 4 * i)]

\* the dimensions of the tensor record whose dtype byte is at offset pos
RecordShape(pos) == DimsAt(pos + 5, Field(pos + 2, pos + 5))

\* the offset after the tensor record at pos: dtype, rank, dimensions and
\* one float per element
TensorEnd(pos) ==
    pos + 5 + 4 * Field(pos + 2, pos + 5) + 4 * Product(RecordShape(pos))

\* the offset after the layer record whose tag is at offset pos
LayerEnd(pos) ==
    IF load.file[pos + 1] = 0 THEN TensorEnd(TensorEnd(pos + 1)) ELSE pos + 1

\* the offsets of the tags of n consecutive layer records from pos on
RECURSIVE TagOffsets(_, _)
TagOffsets(pos, n) ==
    IF n = 0 THEN <<>> ELSE <<pos>> \o TagOffsets(LayerEnd(pos), n - 1)

\* the offset of the input shape record behind n layer records
TrailerOffset(n) == IF n = 0 THEN 16 ELSE LayerEnd(Last(TagOffsets(16, n)))

\* the floats of the payload of the tensor record at pos, as decoded
PayloadAt(pos) ==
    Floats(SubSeq(load.file, TensorEnd(pos) - 4 * Product(RecordShape(pos)) + 1,
                  TensorEnd(pos)))

\* C21: a load that succeeds returns a Model with as many layers as the
\* header declares; layer i has the kind of the i-th tag of the file, an
\* Affine layer holding the first tensor record behind its tag as weights
\* and the second as bias; the input and the output shape are the two
\* shape records behind the last layer, in that order. A load throws
\* UnknownLayerType exactly when the tag of the layer it was reading is
\* not one of 0..3.
C21_LoadedModel ==
    (load.called /\ load.file # NoFile) =>
        /\ load.err = NoError =>
               /\ Len(load.model.layers_) = Field(9, 12)
               /\ \A i \in 1..Field(9, 12) :
                      LET p == TagOffsets(16, i)[i]
                          layer == load.model.layers_[i]
                      IN  /\ layer.type_ = load.file[p + 1]
                          /\ layer.type_ \in {LINEAR, RELU, SIGMOID, SOFTMAX}
                          /\ layer.type_ = LINEAR =>
                                 /\ layer.weights_.shape_ = RecordShape(p + 1)
                                 /\ layer.weights_.data_ = PayloadAt(p + 1)
                                 /\ layer.bias_.shape_ =
                                        RecordShape(TensorEnd(p + 1))
                                 /\ layer.bias_.data_ =
                                        PayloadAt(TensorEnd(p + 1))
               /\ LET t == TrailerOffset(Field(9, 12))
                  IN  /\ load.model.input_shape_ =
                             DimsAt(t + 4, Field(t + 1, t + 4))
                      /\ load.model.output_shape_ =
                             DimsAt(t + 8 + 4 * Field(t + 1, t + 4),
                                    Field(t + 5 + 4 * Field(t + 1, t + 4),
                                          t + 8 + 4 * Field(t + 1, t + 4)))
        /\ load.err.kind = "UnknownLayerType" <=>
               /\ load.layers >= 1
               /\ Last(TagOffsets(16, load.layers)) < Len(load.file)
               /\ load.file[Last(TagOffsets(16, load.layers)) + 1] \notin 0..3
        /\ load.err.kind = "UnknownLayerType" =>
               /\ load.err.type = "runtime_error"
               /\ load.model = NullPtr

\* a file of a Softmax layer followed by an Affine layer loaded into a
\* model of these two layers with the weights 1..6, the bias 0.1, 0.2, 0.3
\* and the shapes {2,2} and {3}
C21_Witness ==
    /\ load.called
    /\ load.err = NoError
    /\ Len(load.model.layers_) = 2
    /\ load.model.layers_[1].type_ = SOFTMAX
    /\ load.model.layers_[2].type_ = LINEAR
    /\ load.model.layers_[2].weights_.shape_ = <<2, 3>>
    /\ load.model.layers_[2].weights_.data_ =
           <<1000, 2000, 3000, 4000, 5000, 6000>>
    /\ load.model.layers_[2].bias_.data_ = <<100, 200, 300>>
    /\ load.model.input_shape_ = <<2, 2>>
    /\ load.model.output_shape_ = <<3>>

\* ------------------------------------------------------------- operations
\* the number of input and of output features of the layer called
InFeatures == ops.layer.weights_.shape_[1]

OutFeatures == ops.layer.weights_.shape_[2]

\* sum_k row[k] * weight[k, j] + bias[j] for the layer called, j from 1
AffineElement(row, j) ==
    SumSeq([k \in 1..InFeatures |->
               FMul(row[k],
                    ops.layer.weights_.data_[(k - 1) * OutFeatures + j])])
        + ops.layer.bias_.data_[j]

\* row b (from 1) of the rank-2 tensor t
Row(t, b) == [k \in 1..t.shape_[2] |-> t.data_[(b - 1) * t.shape_[2] + k]]

\* what forward does on an input it does not accept
ForwardRejects ==
    /\ rank(ops.x) \notin {1, 2} =>
           /\ ops.err.type = "invalid_argument"
           /\ ops.err.kind = "InvalidRank"
    /\ (rank(ops.x) = 1 /\ ops.x.shape_[1] # InFeatures) =>
           /\ ops.err.type = "invalid_argument"
           /\ ops.err.kind = "DimensionMismatch"
    /\ (rank(ops.x) = 2 /\ ops.x.shape_[2] # InFeatures) =>
           /\ ops.err.type = "invalid_argument"
           /\ ops.err.kind = "DimensionMismatch"

\* what forward gives on a rank-1 input of InFeatures elements
ForwardRank1 ==
    /\ ops.err = NoError
    /\ ops.out.shape_ = <<OutFeatures>>
    /\ ops.out.total_size_ = OutFeatures
    /\ \A j \in 1..OutFeatures :
           ops.out.data_[j] = AffineElement(ops.x.data_, j)
    /\ LET batched == LinearLayer_forward(
                          ops.layer, Reshaped(ops.x, <<1, InFeatures>>), ops.r)
       IN  /\ batched.err = NoError
           /\ batched.output.shape_ = <<1, OutFeatures>>
           /\ batched.output.data_ = ops.out.data_

\* what forward gives on a rank-2 input of InFeatures columns
ForwardRank2 ==
    /\ ops.err = NoError
    /\ ops.out.shape_ = <<ops.x.shape_[1], OutFeatures>>
    /\ ops.out.total_size_ = ops.x.shape_[1] * OutFeatures
    /\ \A b \in 1..ops.x.shape_[1], j \in 1..OutFeatures :
           ops.out.data_[(b - 1) * OutFeatures + j] =
               AffineElement(Row(ops.x, b), j)

AffineInvariant(layer) ==
    /\ rank(layer.weights_) = 2
    /\ rank(layer.bias_) = 1
    /\ layer.weights_.shape_[2] = layer.bias_.shape_[1]

\* a weights shape and a bias shape that the constructor must reject
ShapesViolate(wshape, bshape) ==
    \/ Len(wshape) # 2
    \/ Len(bshape) # 1
    \/ wshape[2] # bshape[1]

\* the file loaded passes the header checks and begins with a complete
\* Affine record of two FLOAT32 tensors of ranks 1..8 without a zero
\* dimension
FirstRecordAffine ==
    /\ load.file # NoFile
    /\ Len(load.file) >= 22
    /\ validateHeader(Header(SubSeq(load.file, 1, 16))) = "none"
    /\ load.file[17] = LINEAR
    /\ load.file[18] = 0
    /\ Field(19, 22) \in 1..8
    /\ Len(load.file) >= 22 + 4 * Field(19, 22)
    /\ \A i \in 1..Field(19, 22) : RecordShape(17)[i] # 0
    /\ Len(load.file) >= TensorEnd(17) + 5
    /\ load.file[TensorEnd(17) + 1] = 0
    /\ Field(TensorEnd(17) + 2, TensorEnd(17) + 5) \in 1..8
    /\ Len(load.file) >=
           TensorEnd(17) + 5 + 4 * Field(TensorEnd(17) + 2, TensorEnd(17) + 5)
    /\ \A i \in 1..Field(TensorEnd(17) + 2, TensorEnd(17) + 5) :
           RecordShape(TensorEnd(17))[i] # 0
    /\ Len(load.file) >= TensorEnd(TensorEnd(17))

\* C23: the LinearLayer constructor returns a layer exactly when the
\* weights have rank 2, the bias rank 1 and weights.shape[1] equals
\* bias.shape[0], and throws invalid_argument otherwise; every layer it
\* returned and every Affine layer of a loaded model has these three
\* properties; a load whose first Affine record has shapes the constructor
\* rejects throws and returns no Model.
C23_AffineInvariant ==
    /\ ops.op = "LinearLayer" =>
           /\ ops.returned <=> ~ShapesViolate(ops.x.shape_, ops.y.shape_)
           /\ ops.returned =>
                  /\ ops.err = NoError
                  /\ ops.layer.type_ = LINEAR
                  /\ ops.layer.weights_ = ops.x
                  /\ ops.layer.bias_ = ops.y
                  /\ AffineInvariant(ops.layer)
           /\ ~ops.returned => ops.err.type = "invalid_argument"
    /\ load.called =>
           /\ \A i \in 1..Len(load.model.layers_) :
                  load.model.layers_[i].type_ = LINEAR =>
                      AffineInvariant(load.model.layers_[i])
           /\ (FirstRecordAffine
                   /\ ShapesViolate(RecordShape(17),
                                    RecordShape(TensorEnd(17)))) =>
                  /\ load.err # NoError
                  /\ load.err.cause = "invalid_argument"
                  /\ load.layers = 1
                  /\ load.model = NullPtr

\* the constructor threw on weights {2,3} with a bias {2}, and the load of
\* a file whose Affine record has weights {3,2} and bias {3} threw while
\* reading the first layer
C23_Witness ==
    /\ ops.op = "LinearLayer"
    /\ ops.x.shape_ = <<2, 3>>
    /\ ops.y.shape_ = <<2>>
    /\ ~ops.returned
    /\ ops.err.kind = "DimensionMismatch"
    /\ load.called
    /\ FirstRecordAffine
    /\ RecordShape(17) = <<3, 2>>
    /\ RecordShape(TensorEnd(17)) = <<3>>
    /\ load.err.kind = "DimensionMismatch"
    /\ load.model = NullPtr

\* column j (from 1) of the rank-2 tensor t
Column(t, j) == [k \in 1..t.shape_[1] |-> t.data_[(k - 1) * t.shape_[2] + j]]

\* sum_k a[k] * b[k]
Dot(a, b) == SumSeq([k \in 1..Len(a) |-> FMul(a[k], b[k])])

\* the rank-2 tensor t is a square matrix of ones on the diagonal and
\* zeros elsewhere
IsIdentity(t) ==
    /\ rank(t) = 2
    /\ t.shape_[1] = t.shape_[2]
    /\ t.shape_[1] > 0
    /\ \A i \in 1..t.shape_[1], j \in 1..t.shape_[1] :
           t.data_[(i - 1) * t.shape_[1] + j] = (IF i = j THEN One ELSE 0)

\* what matmul does on operands it does not accept
MatmulRejects ==
    /\ (rank(ops.x) # 2 \/ rank(ops.y) # 2) =>
           /\ ops.err.type = "invalid_argument"
           /\ ops.out = ops.r
    /\ (rank(ops.x) = 2 /\ rank(ops.y) = 2) =>
           /\ ops.err.kind = "DimensionMismatch" <=>
                  ops.x.shape_[2] # ops.y.shape_[1]
           /\ ops.err.kind = "DimensionMismatch" =>
                  /\ ops.err.type = "invalid_argument"
                  /\ ops.out = ops.r

\* what matmul leaves in result on operands it accepts
MatmulResult ==
    /\ ops.err = NoError
    /\ ops.out.shape_ = <<ops.x.shape_[1], ops.y.shape_[2]>>
    /\ ops.out.total_size_ = ops.x.shape_[1] * ops.y.shape_[2]
    /\ Len(ops.out.data_) = ops.out.total_size_
    /\ \A i \in 1..ops.x.shape_[1], j \in 1..ops.y.shape_[2] :
           ops.out.data_[(i - 1) * ops.y.shape_[2] + j] =
               Dot(Row(ops.x, i), Column(ops.y, j))
    /\ IsIdentity(ops.x) => ops.out.data_ = ops.y.data_
    /\ IsIdentity(ops.y) => ops.out.data_ = ops.x.data_

C25_Relu ==
    ops.op = "relu" =>
        /\ ops.err = NoError
        /\ ops.out.shape_ = ops.x.shape_
        /\ ops.out.total_size_ = ops.x.total_size_
        /\ ops.out.dtype_ = ops.x.dtype_
        /\ Len(ops.out.data_) = Len(ops.x.data_)
        /\ \A i \in 1..Len(ops.x.data_) :
               ops.out.data_[i] =
                   (IF ops.x.data_[i] > 0 THEN ops.x.data_[i] ELSE 0)
        /\ relu(ops.out) = ops.out

\* relu on the rank-3 tensor {{{-1, 2}}} gave {{{0, 2}}}
C25_Witness ==
    /\ ops.op = "relu"
    /\ ops.x.shape_ = <<1, 1, 2>>
    /\ ops.x.data_ = <<-1000, 2000>>
    /\ ops.out.shape_ = <<1, 1, 2>>
    /\ ops.out.data_ = <<0, 2000>>

\* the indices (from 0) of the pairs getTopK returned
ReturnedIndices == {ops.pairs[p][1] : p \in 1..Len(ops.pairs)}

\* C27: getTopK on a tensor of rank 1 with n elements returns min(k, n)
\* pairs of distinct indices, each with the element at its index, in
\* order of non-increasing value, and no element whose index it left out
\* is greater than a value it returned; on a tensor of any other rank it
\* throws invalid_argument.
C27_TopK ==
    ops.op = "getTopK" =>
        /\ rank(ops.x) # 1 =>
               /\ ops.err.type = "invalid_argument"
               /\ ops.pairs = <<>>
        /\ rank(ops.x) = 1 =>
               /\ ops.err = NoError
               /\ Len(ops.pairs) = (IF ops.k < ops.x.total_size_
                                    THEN ops.k ELSE ops.x.total_size_)
               /\ \A p \in 1..Len(ops.pairs) :
                      /\ ops.pairs[p][1] \in 0..(ops.x.total_size_ - 1)
                      /\ ops.pairs[p][2] = ops.x.data_[ops.pairs[p][1] + 1]
               /\ \A p, q \in 1..Len(ops.pairs) :
                      /\ p # q => ops.pairs[p][1] # ops.pairs[q][1]
                      /\ p < q => ops.pairs[p][2] >= ops.pairs[q][2]
               /\ \A i \in 0..(ops.x.total_size_ - 1), p \in 1..Len(ops.pairs) :
                      i \notin ReturnedIndices =>
                          ops.x.data_[i + 1] <= ops.pairs[p][2]

\* getTopK on {0.1, 0.8, 0.3, 0.2} with k = 2 returned (1, 0.8), (2, 0.3)
C27_Witness ==
    /\ ops.op = "getTopK"
    /\ ops.x.data_ = <<100, 800, 300, 200>>
    /\ ops.k = 2
    /\ ops.pairs = <<<<1, 800>>, <<2, 300>>>>

\* ---------------------------------------------------------------------
\* the frame of predict and predictBatch

\* what an engine built anew from the model m, which has neither stats nor
\* buffers, answers to predict(input)
FreshAnswer(m, input) ==
    predict(InferenceEngine(m), input, ZeroClock(Len(m.layers_)))

\* one step of an engine that exists: the model it holds (the layer
\* sequence with the weights and biases of the Linear layers, and both
\* declared shapes) is the same after the step
FrameStep ==
    engine.exists => engine'.exists /\ engine'.model_ = engine.model_

\* item i of the last call ran on the tensor the caller handed in and
\* answered what an engine built anew from the model answers to it
FreshItem(i, input) ==
    \E p \in {FreshAnswer(engine.model_, input)} :
        /\ call.items[i].input = input
        /\ call.items[i].returned = p.returned
        /\ call.items[i].err = p.err
        /\ call.items[i].result = p.result

\* after a predict or predictBatch call the engine, whatever its stats and
\* buffers, has answered every item as an engine built anew would
FrameState ==
    /\ call.op = "predict" =>
           /\ Len(call.items) = 1
           /\ FreshItem(1, call.input)
           /\ call.returned = call.items[1].returned
           /\ call.err = call.items[1].err
           /\ call.result = call.items[1].result
    /\ call.op = "predictBatch" =>
           /\ \A i \in 1..Len(call.items) : FreshItem(i, call.inputs[i])
           /\ call.returned =>
                  /\ Len(call.outputs) = Len(call.inputs)
                  /\ \A i \in 1..Len(call.inputs) :
                         call.outputs[i] = call.items[i].result

\* C28: after any sequence of predict and predictBatch calls, successful
\* or failed, the model of the engine (layers, weights, biases, declared
\* shapes) and the inputs of the caller are unchanged, and a predict call
\* returns (or throws) what the same input gives on an engine that has
\* made no call yet, whatever the stats and the buffers are.
C28_Frame == []FrameState /\ [][FrameStep]_vars

\* a predict call that returned, on an engine with profiling on, a time
\* recorded and buffers preallocated
C28_Witness ==
    /\ call.op = "predict"
    /\ call.returned
    /\ engine.profiling_enabled_
    /\ engine.last_stats_.total_time > 0
    /\ engine.buffers_allocated_
    /\ Len(engine.intermediate_tensors_) = 2

\* the tensor in slot t has the fields and the elements it had before the
\* last operation
Untouched(t) == objs[t] = Before(t) /\ Elements(t) = ElementsBefore(t)

\* C29: a compound assignment (+=, -=, *=, /=) that throws ShapeMismatch
\* or DivisionByZero leaves the shape and every element of its left
\* operand as they were; the binary forms (+, -, *, /) leave both
\* operands as they were, whether they return or throw (an operand that
\* is also the variable assigned to is changed by the assignment of a
\* result that was returned, not by the operator).
C29_FailedOperatorFrame ==
    /\ (/\ tcall.form = "compound"
        /\ tcall.err.kind \in {"ShapeMismatch", "DivisionByZero"}) =>
           Untouched(tcall.d)
    /\ tcall.form = "binary" =>
           \A t \in {tcall.s, tcall.r} :
               (t # tcall.d \/ tcall.err # NoError) => Untouched(t)

\* ---------------------------------------------------------------------
\* the memory figure

\* the bytes of the elements of a tensor (elements are floats whatever
\* the dtype tag)
TensorBytes(t) == t.total_size_ * SizeofFloat

RECURSIVE ParameterBytes(_)
\* the bytes of the weights and biases of the Linear layers
ParameterBytes(layers) ==
    IF layers = <<>> THEN 0
    ELSE (IF Head(layers).type_ = LINEAR
          THEN TensorBytes(Head(layers).weights_)
               + TensorBytes(Head(layers).bias_)
          ELSE 0)
         + ParameterBytes(Tail(layers))

RECURSIVE BufferBytes(_)
\* the bytes of the buffers the engine retains
BufferBytes(tensors) ==
    IF tensors = <<>> THEN 0
    ELSE TensorBytes(Head(tensors)) + BufferBytes(Tail(tensors))

\* C30: after a predict call that returned with profiling enabled, the
\* memory usage recorded in the stats is the bytes of the weights and
\* biases of the Linear layers of the model plus the bytes of the
\* intermediate buffers the engine retains.
C30_MemoryUsage ==
    (call.op = "predict" /\ call.returned /\ engine.profiling_enabled_) =>
        engine.last_stats_.memory_usage_bytes =
            ParameterBytes(engine.model_.layers_)
            + BufferBytes(engine.intermediate_tensors_)

====
